---------------------------- MODULE Spec2Model ----------------------------
(***************************************************************************)
(* flatpak-spawn (src/src/flatpak-spawn.c): the command-spawn relay.       *)
(* The model follows main() block by block, the GLib main-loop callbacks   *)
(* (spawn_exited_cb, forward_signal_handler, name_owner_changed,           *)
(* session_bus_closed_cb) and the two services it talks to, which are the  *)
(* environment: they answer calls and emit bus signals.                    *)
(***************************************************************************)
EXTENDS Integers, Sequences, FiniteSets, TLC

(***************************************************************************)
(* Bounds of the model.                                                    *)
(***************************************************************************)
MaxOpts == 2        \* option tokens on a command line (option-centred runs)
MaxSignals == 1     \* POSIX signals sent to the relay in one run
MaxMsgs == 1        \* bus signals / closures the environment produces in one run
MaxPid == 1         \* handles the service may return are 0..MaxPid
MaxEdits == 3       \* environment options on a command line (environment runs)
MaxArgs == 2        \* arguments after the command name (argv runs)
MaxFds == 4         \* descriptor options on a command line (descriptor runs)

(***************************************************************************)
(* Program constants.                                                      *)
(***************************************************************************)
FLATPAK_SPAWN_FLAGS_CLEAR_ENV == 1
FLATPAK_SPAWN_FLAGS_LATEST_VERSION == 2
FLATPAK_SPAWN_FLAGS_SANDBOX == 4
FLATPAK_SPAWN_FLAGS_NO_NETWORK == 8
FLATPAK_SPAWN_FLAGS_WATCH_BUS == 16
FLATPAK_SPAWN_FLAGS_EXPOSE_PIDS == 32
FLATPAK_SPAWN_FLAGS_SHARE_PIDS == 128
FLATPAK_HOST_COMMAND_FLAGS_CLEAR_ENV == 1
FLATPAK_HOST_COMMAND_FLAGS_WATCH_BUS == 2
FLATPAK_SPAWN_SANDBOX_FLAGS_SHARE_DISPLAY == 1
FLATPAK_SPAWN_SANDBOX_FLAGS_SHARE_SOUND == 2
FLATPAK_SPAWN_SANDBOX_FLAGS_SHARE_GPU == 4
FLATPAK_SPAWN_SANDBOX_FLAGS_ALLOW_DBUS == 8
FLATPAK_SPAWN_SANDBOX_FLAGS_ALLOW_A11Y == 16
FLATPAK_SPAWN_SUPPORT_FLAGS_EXPOSE_PIDS == 1
FLATPAK_SPAWN_SUPPORT_FLAGS_SHARE_PIDS == FLATPAK_SPAWN_SUPPORT_FLAGS_EXPOSE_PIDS

\* Signal numbers (Linux, <signal.h>), as used by forward_signals/forward_signal.
SIGHUP == 1
SIGINT == 2
SIGQUIT == 3
SIGUSR1 == 10
SIGUSR2 == 12
SIGTERM == 15
SIGCONT == 18
SIGSTOP == 19
SIGTSTP == 20
SIGTTIN == 21
SIGTTOU == 22

\* static int forward[] of forward_signals
forward == {SIGHUP, SIGINT, SIGQUIT, SIGTERM, SIGCONT, SIGTSTP, SIGUSR1, SIGUSR2}

EX_SOFTWARE == 70   \* the fixed exit code of spawn_exited_cb's last branch

(***************************************************************************)
(* Integer helpers: C's bit operators on naturals, and conversions.        *)
(***************************************************************************)
RECURSIVE BitAnd(_, _)
BitAnd(a, b) ==
  IF a = 0 \/ b = 0 THEN 0
  ELSE (a % 2) * (b % 2) + 2 * BitAnd(a \div 2, b \div 2)

RECURSIVE BitOr(_, _)
BitOr(a, b) ==
  IF a = 0 THEN b
  ELSE IF b = 0 THEN a
  ELSE (IF a % 2 = 1 \/ b % 2 = 1 THEN 1 ELSE 0) + 2 * BitOr(a \div 2, b \div 2)

\* flags &= ~bit
BitClear(flags, bit) == flags - BitAnd(flags, bit)

\* (signed char) x
ToSignedChar(x) ==
  LET low == x % 256
  IN  IF low >= 128 THEN low - 256 ELSE low

(***************************************************************************)
(* <sys/wait.h> decoding of a wait status, as spawn_exited_cb uses it.     *)
(***************************************************************************)
WTERMSIG(status) == status % 128

WEXITSTATUS(status) == (status \div 256) % 256

\* A test for a normal exit that every status passes.
WIFEXITED_always(status) == TRUE

WIFEXITED(status) == WTERMSIG(status) = 0

\* A test for a terminating signal that takes the whole status for the signal.
WIFSIGNALED_whole_status(status) == status >= 1 /\ status <= 126

\* ((signed char) ((status & 0x7f) + 1) >> 1) > 0
WIFSIGNALED(status) == (ToSignedChar(WTERMSIG(status) + 1) \div 2) > 0


(***************************************************************************)
(* The command line.  A token is a string; what the C string functions     *)
(* and GLib's option parser see in it is given by tables over the finite   *)
(* vocabulary of the model.                                                *)
(***************************************************************************)
\* const GOptionEntry options[]: long name -> argument kind
options ==
  [ n \in { "verbose", "forward-fd", "clear-env", "watch-bus", "expose-pids",
            "share-pids", "env", "unset-env", "env-fd", "latest-version",
            "sandbox", "no-network", "sandbox-expose", "sandbox-expose-ro",
            "sandbox-expose-path", "sandbox-expose-path-ro",
            "sandbox-expose-path-try", "sandbox-expose-path-ro-try",
            "sandbox-flag", "host", "directory" } |->
      CASE n \in { "verbose", "clear-env", "watch-bus", "expose-pids", "share-pids",
                   "latest-version", "sandbox", "no-network", "host" } -> "NONE"
        [] n = "forward-fd" \/ n = "sandbox-expose" \/ n = "sandbox-expose-ro"
             -> "STRING_ARRAY"
        [] n \in { "sandbox-expose-path", "sandbox-expose-path-ro",
                   "sandbox-expose-path-try", "sandbox-expose-path-ro-try" }
             -> "FILENAME_ARRAY"
        [] n = "directory" -> "FILENAME"
        [] OTHER -> "CALLBACK" ]

\* The "--name" / "--name=value" tokens of the model, split at the first '='.
OptionTokens ==
  ( "--host" :> <<"host", "">> ) @@
  ( "--verbose" :> <<"verbose", "">> ) @@
  ( "--clear-env" :> <<"clear-env", "">> ) @@
  ( "--watch-bus" :> <<"watch-bus", "">> ) @@
  ( "--expose-pids" :> <<"expose-pids", "">> ) @@
  ( "--share-pids" :> <<"share-pids", "">> ) @@
  ( "--latest-version" :> <<"latest-version", "">> ) @@
  ( "--sandbox" :> <<"sandbox", "">> ) @@
  ( "--no-network" :> <<"no-network", "">> ) @@
  ( "--sandbox-expose=NAME" :> <<"sandbox-expose", "NAME">> ) @@
  ( "--sandbox-expose-ro=NAME" :> <<"sandbox-expose-ro", "NAME">> ) @@
  ( "--sandbox-expose-path=/" :> <<"sandbox-expose-path", "/">> ) @@
  ( "--sandbox-expose-path=/dev" :> <<"sandbox-expose-path", "/dev">> ) @@
  ( "--sandbox-expose-path=/nonexistent" :> <<"sandbox-expose-path", "/nonexistent">> ) @@
  ( "--sandbox-expose-path-ro=/" :> <<"sandbox-expose-path-ro", "/">> ) @@
  ( "--sandbox-expose-path-ro=/nonexistent" :> <<"sandbox-expose-path-ro", "/nonexistent">> ) @@
  ( "--sandbox-expose-path-try=/" :> <<"sandbox-expose-path-try", "/">> ) @@
  ( "--sandbox-expose-path-try=/nonexistent" :> <<"sandbox-expose-path-try", "/nonexistent">> ) @@
  ( "--sandbox-expose-path-ro-try=/" :> <<"sandbox-expose-path-ro-try", "/">> ) @@
  ( "--sandbox-expose-path-ro-try=/nonexistent" :> <<"sandbox-expose-path-ro-try", "/nonexistent">> ) @@
  ( "--sandbox-flag=share-display" :> <<"sandbox-flag", "share-display">> ) @@
  ( "--sandbox-flag=share-sound" :> <<"sandbox-flag", "share-sound">> ) @@
  ( "--sandbox-flag=share-gpu" :> <<"sandbox-flag", "share-gpu">> ) @@
  ( "--sandbox-flag=allow-dbus" :> <<"sandbox-flag", "allow-dbus">> ) @@
  ( "--sandbox-flag=allow-a11y" :> <<"sandbox-flag", "allow-a11y">> ) @@
  ( "--sandbox-flag=1" :> <<"sandbox-flag", "1">> ) @@
  ( "--sandbox-flag=8388608" :> <<"sandbox-flag", "8388608">> ) @@
  ( "--sandbox-flag=4294967296" :> <<"sandbox-flag", "4294967296">> ) @@
  ( "--sandbox-flag=tricolore" :> <<"sandbox-flag", "tricolore">> ) @@
  ( "--sandbox-flag=1e6" :> <<"sandbox-flag", "1e6">> ) @@
  ( "--env=A=1" :> <<"env", "A=1">> ) @@
  ( "--env=A=2" :> <<"env", "A=2">> ) @@
  ( "--env=B=" :> <<"env", "B=">> ) @@
  ( "--env=bad" :> <<"env", "bad">> ) @@
  ( "--env==x" :> <<"env", "=x">> ) @@
  ( "--unset-env=A" :> <<"unset-env", "A">> ) @@
  ( "--unset-env=NOPE" :> <<"unset-env", "NOPE">> ) @@
  ( "--unset-env=B" :> <<"unset-env", "B">> ) @@
  ( "--forward-fd=6" :> <<"forward-fd", "6">> ) @@
  ( "--env-fd=4" :> <<"env-fd", "4">> ) @@
  ( "--env-fd=5" :> <<"env-fd", "5">> ) @@
  ( "--env-fd=yes" :> <<"env-fd", "yes">> ) @@
  ( "--env-fd=4294967296" :> <<"env-fd", "4294967296">> ) @@
  ( "--forward-fd=4" :> <<"forward-fd", "4">> ) @@
  ( "--forward-fd=5" :> <<"forward-fd", "5">> ) @@
  ( "--forward-fd=1" :> <<"forward-fd", "1">> ) @@
  ( "--forward-fd=2" :> <<"forward-fd", "2">> ) @@
  ( "--forward-fd=0" :> <<"forward-fd", "0">> ) @@
  ( "--forward-fd=yes" :> <<"forward-fd", "yes">> ) @@
  ( "--directory=/dev" :> <<"directory", "/dev">> ) @@
  ( "--app-path=/dev" :> <<"app-path", "/dev">> ) @@
  ( "--app-path=" :> <<"app-path", "">> ) @@
  ( "--app-path=/nonexistent" :> <<"app-path", "/nonexistent">> ) @@
  ( "--usr-path=/" :> <<"usr-path", "/">> ) @@
  ( "--usr-path=" :> <<"usr-path", "">> ) @@
  ( "--usr-path=/nonexistent" :> <<"usr-path", "/nonexistent">> ) @@
  ( "--bogus" :> <<"bogus", "">> )

\* Command tokens: a command name or one of its arguments.
CommandTokens == { "some-command", "some=command", "arg2", "--arg1", "-x" }

\* argv[i][0] == '-'
StartsWithDash(token) == token \in DOMAIN OptionTokens \/ token \in { "--arg1", "-x" }

\* strchr (s, '=') != NULL
HasEquals(token) == token \in { "some=command", "A=1", "A=2", "B=", "=x" }

\* g_strsplit (value, "=", 2) of opt_env_cb and the entries of an --env-fd block
StrSplitEquals(value) ==
  CASE value = "A=1" -> <<"A", "1">>
    [] value = "A=2" -> <<"A", "2">>
    [] value = "B=" -> <<"B", "">>
    [] value = "=x" -> <<"", "x">>
    [] OTHER -> <<value>>

\* strtol (value, &end, 10) where long is 64 bits wide: the number read, as
\* its low 32 bits and what is above them, and whether *end == 0
Strtol(value) ==
  CASE value = "0" -> [high |-> 0, low |-> 0, end |-> TRUE]
    [] value = "1" -> [high |-> 0, low |-> 1, end |-> TRUE]
    [] value = "2" -> [high |-> 0, low |-> 2, end |-> TRUE]
    [] value = "4" -> [high |-> 0, low |-> 4, end |-> TRUE]
    [] value = "5" -> [high |-> 0, low |-> 5, end |-> TRUE]
    [] value = "6" -> [high |-> 0, low |-> 6, end |-> TRUE]
    [] value = "8388608" -> [high |-> 0, low |-> 8388608, end |-> TRUE]
    [] value = "4294967296" -> [high |-> 1, low |-> 0, end |-> TRUE]
    [] value = "1e6" -> [high |-> 0, low |-> 1, end |-> FALSE]
    [] OTHER -> [high |-> 0, low |-> 0, end |-> FALSE]

\* open (path, O_PATH|...) succeeds: the paths that exist
PathExists(path) == path \in { "/", "/dev" }

\* The descriptors open in the relay when it starts.
InheritedFds == { 0, 1, 2, 4, 5, 6 }

\* g_file_get_contents ("/proc/self/fd/N"): the NUL-separated entries of the
\* file behind descriptor N
EnvBlock(fd) ==
  CASE fd = 4 -> << "A=2", "B=" >>
    [] fd = 5 -> << "A=1", "bad" >>
    [] OTHER -> << >>

EmptyMap == [ x \in {} |-> "" ]

MapRemove(map, key) == [ k \in DOMAIN map \ {key} |-> map[k] ]

MapReplace(map, key, value) == (key :> value) @@ map

(***************************************************************************)
(* Option callbacks.  The parse state is a record of the opt_* variables   *)
(* plus ok, which is FALSE once a callback or the parser has failed.       *)
(***************************************************************************)
InitialOptions ==
  [ ok |-> TRUE, verbose |-> FALSE, host |-> FALSE, clear_env |-> FALSE,
    watch_bus |-> FALSE, expose_pids |-> FALSE, share_pids |-> FALSE,
    latest_version |-> FALSE, sandbox |-> FALSE, no_network |-> FALSE,
    forward_fds |-> <<>>, sandbox_expose |-> <<>>, sandbox_expose_ro |-> <<>>,
    sandbox_expose_path |-> <<>>, sandbox_expose_path_ro |-> <<>>,
    sandbox_expose_path_try |-> <<>>, sandbox_expose_path_ro_try |-> <<>>,
    sandbox_flags |-> 0, directory |-> "", env |-> EmptyMap, unsetenv |-> {},
    closed |-> {} ]

\* sandbox_flag_callback.  opt_sandbox_flags is a gboolean, a 32-bit int:
\* "opt_sandbox_flags |= val" keeps the low 32 bits of the long val.
sandbox_flag_callback(o, value) ==
  LET named == CASE value = "share-display" -> FLATPAK_SPAWN_SANDBOX_FLAGS_SHARE_DISPLAY
                 [] value = "share-sound" -> FLATPAK_SPAWN_SANDBOX_FLAGS_SHARE_SOUND
                 [] value = "share-gpu" -> FLATPAK_SPAWN_SANDBOX_FLAGS_SHARE_GPU
                 [] value = "allow-dbus" -> FLATPAK_SPAWN_SANDBOX_FLAGS_ALLOW_DBUS
                 [] value = "allow-a11y" -> FLATPAK_SPAWN_SANDBOX_FLAGS_ALLOW_A11Y
                 [] OTHER -> 0
      n == Strtol(value)
  IN  IF named # 0
        THEN [o EXCEPT !.sandbox_flags = BitOr(o.sandbox_flags, named)]
      ELSE IF (n.high > 0 \/ n.low > 0) /\ n.end
        THEN [o EXCEPT !.sandbox_flags = BitOr(o.sandbox_flags, n.low)]
      ELSE [o EXCEPT !.ok = FALSE]

\* opt_env_cb
opt_env_cb(o, value) ==
  LET split == StrSplitEquals(value)
  IN  IF split[1] = "" \/ Len(split) < 2
        THEN [o EXCEPT !.ok = FALSE]
        ELSE [o EXCEPT !.unsetenv = o.unsetenv \ {split[1]},
                       !.env = MapReplace(o.env, split[1], split[2])]

\* A callback that records the name as unset and leaves the map as it is.
opt_unset_env_cb_keeps_value(o, value) ==
  [o EXCEPT !.unsetenv = o.unsetenv \cup {value}]

\* opt_unset_env_cb
opt_unset_env_cb(o, value) ==
  [o EXCEPT !.env = MapRemove(o.env, value),
            !.unsetenv = o.unsetenv \cup {value}]

\* option_env_fd_cb, lines 632-661: one entry of the block
EnvFdEntry(o, entry) ==
  LET split == StrSplitEquals(entry)
  IN  IF ~HasEquals(entry) \/ split[1] = ""
        THEN [o EXCEPT !.ok = FALSE]
        ELSE [o EXCEPT !.unsetenv = o.unsetenv \ {split[1]},
                       !.env = MapReplace(o.env, split[1], split[2])]

RECURSIVE EnvFdEntries(_, _)
EnvFdEntries(o, entries) ==
  IF entries = <<>> \/ ~o.ok THEN o
  ELSE EnvFdEntries(EnvFdEntry(o, Head(entries)), Tail(entries))

\* option_env_fd_cb: the descriptor is read through /proc/self/fd, its entries
\* are applied in order, and it is closed at the end if it is not 0, 1 or 2
option_env_fd_cb(o, value) ==
  LET n == Strtol(value)
      fd == n.low
  IN  IF ~n.end \/ n.high > 0 THEN [o EXCEPT !.ok = FALSE]
      ELSE IF fd \notin InheritedFds \ o.closed THEN [o EXCEPT !.ok = FALSE]
      ELSE LET done == EnvFdEntries(o, EnvBlock(fd))
           IN  IF done.ok /\ fd >= 3
                 THEN [done EXCEPT !.closed = done.closed \cup {fd}]
                 ELSE done

\* g_option_context_parse on one "--name[=value]" token, by the entry's kind
ParseOption(o, token) ==
  LET name == OptionTokens[token][1]
      value == OptionTokens[token][2]
  IN  IF name \notin DOMAIN options THEN [o EXCEPT !.ok = FALSE]
      ELSE CASE name = "verbose" -> [o EXCEPT !.verbose = TRUE]
             [] name = "host" -> [o EXCEPT !.host = TRUE]
             [] name = "clear-env" -> [o EXCEPT !.clear_env = TRUE]
             [] name = "watch-bus" -> [o EXCEPT !.watch_bus = TRUE]
             [] name = "expose-pids" -> [o EXCEPT !.expose_pids = TRUE]
             [] name = "share-pids" -> [o EXCEPT !.share_pids = TRUE]
             [] name = "latest-version" -> [o EXCEPT !.latest_version = TRUE]
             [] name = "sandbox" -> [o EXCEPT !.sandbox = TRUE]
             [] name = "no-network" -> [o EXCEPT !.no_network = TRUE]
             [] name = "forward-fd" ->
                  [o EXCEPT !.forward_fds = Append(o.forward_fds, value)]
             [] name = "sandbox-expose" ->
                  [o EXCEPT !.sandbox_expose = Append(o.sandbox_expose, value)]
             [] name = "sandbox-expose-ro" ->
                  [o EXCEPT !.sandbox_expose_ro = Append(o.sandbox_expose_ro, value)]
             [] name = "sandbox-expose-path" ->
                  [o EXCEPT !.sandbox_expose_path = Append(o.sandbox_expose_path, value)]
             [] name = "sandbox-expose-path-ro" ->
                  [o EXCEPT !.sandbox_expose_path_ro =
                              Append(o.sandbox_expose_path_ro, value)]
             [] name = "sandbox-expose-path-try" ->
                  [o EXCEPT !.sandbox_expose_path_try =
                              Append(o.sandbox_expose_path_try, value)]
             [] name = "sandbox-expose-path-ro-try" ->
                  [o EXCEPT !.sandbox_expose_path_ro_try =
                              Append(o.sandbox_expose_path_ro_try, value)]
             [] name = "directory" -> [o EXCEPT !.directory = value]
             [] name = "sandbox-flag" -> sandbox_flag_callback(o, value)
             [] name = "env" -> opt_env_cb(o, value)
             [] name = "unset-env" -> opt_unset_env_cb(o, value)
             [] name = "env-fd" -> option_env_fd_cb(o, value)
             [] OTHER -> [o EXCEPT !.ok = FALSE]

\* g_option_context_parse over argv[1..opt_argc-1]: it stops at the first error
RECURSIVE ParseOptions(_, _)
ParseOptions(o, tokens) ==
  IF tokens = <<>> \/ ~o.ok THEN o
  ELSE ParseOptions(ParseOption(o, Head(tokens)), Tail(tokens))

\* A scan that stops after the first option.
CountOptions_first_only(tokens) ==
  IF tokens # <<>> /\ StartsWithDash(Head(tokens)) THEN 1 ELSE 0

\* main: i = 1; while (i < argc && argv[i][0] == '-') i++;  (argv[0] left out)
RECURSIVE CountOptions(_)
CountOptions(tokens) ==
  IF tokens # <<>> /\ StartsWithDash(Head(tokens))
    THEN 1 + CountOptions(Tail(tokens))
    ELSE 0

\* A test that lets an empty command through.
command_specified_any(argv_) == TRUE

\* command_specified: child_argv->len > 1, the array ending with a NULL
command_specified(argv_) == Len(argv_) + 1 > 1


(***************************************************************************)
(* State.                                                                  *)
(***************************************************************************)
VARIABLES
  argv,             \* the command line after argv[0]
  portal_version,   \* the "version" property of the service
  portal_supports,  \* the "supports" property of the service
  remote_status,    \* the wait status the spawned command will end with
  read_fails,       \* which property reads fail: the 1st, the 2nd, ...
  sigs_left,        \* POSIX signals the environment may still send
  msgs_left,        \* bus signals / closures the environment may still produce
  pc,               \* where main() is
  exit_code,        \* the relay's exit status once pc = "exited", else -1
  killed_by,        \* the signal that killed the relay once pc = "killed", else 0
  stopped,          \* the relay process is stopped (SIGSTOP)
  opt,              \* the opt_* variables
  child_argv,       \* GPtrArray child_argv, without its closing NULL
  blocked,          \* forward_signals has blocked the signals and added the source
  pending,          \* blocked signals pending on the signalfd
  session_bus,      \* "NULL", "open" or "closed"
  subscribed,       \* the bus signals subscribed to
  inbox,            \* bus signals and the closure queued for the main context
  fd_list,          \* GUnixFDList: the descriptors passed with the call
  fds,              \* fd_builder: a{uh}, pairs <<fd, handle>>
  env,              \* env_builder: a{ss}
  spawn_flags,
  options_builder,  \* a{sv}
  version,          \* static of get_portal_version
  supports,         \* static of get_portal_supports
  ran,              \* static of get_portal_supports
  prop_reads,       \* the property reads that reached the service
  child_pid,
  spawn_calls,      \* the HostCommand/Spawn calls that reached the service
  spawn_results,    \* how the service answered each of these calls
  service_pid,      \* the handle the service gave out, -1 before it did
  remote_exited,    \* the service has announced the end of the command
  signal_log,       \* what the latest forward_signal did: its call, its raise()
  failed_forwards,  \* how many relay calls returned an error so far
  loop_quit         \* g_main_loop_quit has been called

envvars == << argv, portal_version, portal_supports, remote_status, read_fails >>
budgetvars == << sigs_left, msgs_left >>
procvars == << pc, exit_code, killed_by, stopped >>
optvars == << opt, child_argv >>
sigvars == << blocked, pending >>
busvars == << session_bus, subscribed, inbox, service_pid, remote_exited >>
callvars == << fd_list, fds, env, spawn_flags, options_builder >>
portalvars == << version, supports, ran, prop_reads >>
relayvars == << child_pid, spawn_calls, spawn_results, signal_log, failed_forwards,
               loop_quit >>

vars == << envvars, budgetvars, procvars, optvars, sigvars, busvars, callvars,
           portalvars, relayvars >>

\* service_bus_name, service_iface as main sets them from opt_host
service_bus_name ==
  IF opt.host THEN "org.freedesktop.Flatpak" ELSE "org.freedesktop.portal.Flatpak"

service_iface ==
  IF opt.host THEN "org.freedesktop.Flatpak.Development"
              ELSE "org.freedesktop.portal.Flatpak"

Running == pc \notin { "exited", "killed" } /\ ~stopped

\* exit (code) / return code from main
Exit(code) ==
  /\ pc' = "exited"
  /\ exit_code' = code
  /\ UNCHANGED << killed_by, stopped >>

Goto(label) ==
  /\ pc' = label
  /\ UNCHANGED << exit_code, killed_by, stopped >>

(***************************************************************************)
(* Initial states: a command line, a service and an environment.           *)
(***************************************************************************)
\* Sequences over S of length at most n
RECURSIVE SeqsUpTo(_, _)
SeqsUpTo(S, n) ==
  IF n = 0 THEN { <<>> }
  ELSE LET shorter == SeqsUpTo(S, n - 1)
       IN  shorter \cup { Append(s, x) : s \in shorter, x \in S }

InitWith(cmdlines, versions, supportses, failures, statuses, nsigs, nmsgs) ==
  /\ argv \in cmdlines
  /\ portal_version \in versions
  /\ portal_supports \in supportses
  /\ remote_status \in statuses
  /\ read_fails \in failures
  /\ sigs_left = nsigs
  /\ msgs_left = nmsgs
  /\ pc = "start"
  /\ exit_code = -1
  /\ killed_by = 0
  /\ stopped = FALSE
  /\ opt = InitialOptions
  /\ child_argv = <<>>
  /\ blocked = FALSE
  /\ pending = {}
  /\ session_bus = "NULL"
  /\ subscribed = {}
  /\ inbox = <<>>
  /\ fd_list = <<>>
  /\ fds = <<>>
  /\ env = EmptyMap
  /\ spawn_flags = 0
  /\ options_builder = EmptyMap
  /\ version = 0
  /\ supports = 0
  /\ ran = FALSE
  /\ prop_reads = <<>>
  /\ child_pid = 0
  /\ spawn_calls = <<>>
  /\ spawn_results = <<>>
  /\ service_pid = -1
  /\ remote_exited = FALSE
  /\ signal_log = <<>>
  /\ failed_forwards = 0
  /\ loop_quit = FALSE

(***************************************************************************)
(* main, lines 733-793: parse, install the signal source, get the bus.     *)
(***************************************************************************)
main_parse ==
  /\ pc = "start" /\ Running
  /\ LET opt_argc == CountOptions(argv)
         parsed == ParseOptions(InitialOptions, SubSeq(argv, 1, opt_argc))
         command == SubSeq(argv, opt_argc + 1, Len(argv))
     IN  /\ child_argv' = command
         /\ opt' = parsed
         /\ IF ~parsed.ok \/ ~command_specified(command)
              THEN Exit(1)
              ELSE Goto("signals")
  /\ UNCHANGED << envvars, budgetvars, sigvars, busvars, callvars, portalvars,
                  relayvars >>

\* A main that goes on to the bus whatever forward_signals returned.
forward_signals_unchecked ==
  /\ pc = "signals" /\ Running
  /\ \E sfd_ok \in BOOLEAN : blocked' = sfd_ok
  /\ Goto("bus")
  /\ UNCHANGED << envvars, budgetvars, optvars, pending, busvars, callvars,
                  portalvars, relayvars >>

\* forward_signals, and main's "if (signal_source == 0) return 1"
forward_signals ==
  /\ pc = "signals" /\ Running
  /\ \E sfd_ok \in BOOLEAN :
       IF sfd_ok
         THEN /\ blocked' = TRUE
              /\ Goto("bus")
         ELSE /\ blocked' = FALSE
              /\ Exit(1)
  /\ UNCHANGED << envvars, budgetvars, optvars, pending, busvars, callvars,
                  portalvars, relayvars >>

\* g_bus_get_sync, the service names, the subscription to the exit signal
main_bus_get ==
  /\ pc = "bus" /\ Running
  /\ \E connected \in BOOLEAN :
       IF connected
         THEN /\ session_bus' = "open"
              /\ subscribed' = { "Exited" }
              /\ Goto("setup")
         ELSE /\ UNCHANGED << session_bus, subscribed >>
              /\ Exit(1)
  /\ UNCHANGED << envvars, budgetvars, optvars, sigvars, inbox, service_pid,
                  remote_exited, callvars, portalvars, relayvars >>

(***************************************************************************)
(* The version and capability probes, lines 403-497.  A probe works on the *)
(* record of the function statics.  Which property reads fail is fixed by  *)
(* the environment (read_fails); a read on a closed connection fails.      *)
(***************************************************************************)
Cache == [ version |-> version, supports |-> supports, ran |-> ran,
           reads |-> prop_reads ]

SetCache(c) ==
  /\ version' = c.version
  /\ supports' = c.supports
  /\ ran' = c.ran
  /\ prop_reads' = c.reads

\* reply == NULL for the next property read
ReadFails(c) == session_bus # "open" \/ (Len(c.reads) + 1) \in read_fails

get_portal_version(c) ==
  IF c.version = 0
    THEN [c EXCEPT !.reads = Append(c.reads, "version"),
                   !.version = IF ReadFails(c) THEN @ ELSE portal_version]
    ELSE c

\* check_portal_version: the statics after it, and whether it returned
check_portal_version(c, version_needed) ==
  LET c1 == get_portal_version(c)
  IN  [ c |-> c1, ok |-> ~(c1.version < version_needed) ]

get_portal_supports(c) ==
  IF ~c.ran
    THEN LET c1 == get_portal_version([c EXCEPT !.ran = TRUE])
         IN  IF c1.version >= 3
               THEN [c1 EXCEPT !.reads = Append(c1.reads, "supports"),
                               !.supports = IF ReadFails(c1) THEN @
                                                             ELSE portal_supports]
               ELSE c1
    ELSE c

\* A check of the capabilities that reads them and lets everything pass.
check_portal_supports_unchecked(c, supports_needed) ==
  [ c |-> get_portal_supports(c), ok |-> TRUE ]

\* check_portal_supports: the statics after it, and whether it returned
check_portal_supports(c, supports_needed) ==
  LET c1 == get_portal_supports(c)
  IN  [ c |-> c1, ok |-> ~(BitAnd(c1.supports, supports_needed) # supports_needed) ]

(***************************************************************************)
(* main, lines 818-1089, block by block.  Each block maps the record m of  *)
(* main's locals and the statics (c) to their values after the block;      *)
(* m.ok = FALSE means the block has left main with "return 1" or exit (1). *)
(***************************************************************************)
\* The descriptor table while the list is built: b.open is the set of open
\* descriptor numbers and b.at[i] the number of the duplicate that entry i of
\* the list holds.  A list entry is [fd, path, closed]: the descriptor or the
\* path it was made from, and whether the number of its duplicate is closed.

\* dup: the lowest descriptor number that is not open
LowestFree(open) ==
  CHOOSE n \in 0..Cardinality(open) :
    n \notin open /\ \A k \in 0..(n - 1) : k \in open

\* The descriptors open when main builds the list: those the relay was given
\* and did not close while parsing, and its own (the signalfd, the bus
\* socket, the main contexts' eventfds), which took the lowest free numbers.
OpenAtSetup ==
  LET given == InheritedFds \ opt.closed
      highest == CHOOSE n \in InheritedFds : \A k \in InheritedFds : k <= n
  IN  given \cup { n \in 0..highest : n \notin given }

\* g_unix_fd_list_append (fd_list, fd, &error): the list keeps a duplicate
FdListAppend(b, fd) ==
  LET n == LowestFree(b.open)
  IN  [b EXCEPT !.list = Append(@, [fd |-> fd, path |-> "", closed |-> FALSE]),
                !.at = Append(@, n),
                !.open = @ \cup {n}]

\* close (fd)
FdClose(b, fd) == [b EXCEPT !.open = @ \ {fd}]

\* the list as the call finds it: an entry whose descriptor number is no
\* longer open cannot be passed
FdListAtCall(b) ==
  [ i \in DOMAIN b.list |-> [b.list[i] EXCEPT !.closed = b.at[i] \notin b.open] ]

\* one turn of the loop over forward_fds, lines 849-872
ForwardFd(b, value) ==
  LET fd == Strtol(value).low
  IN  IF fd = 0 THEN [b EXCEPT !.ok = FALSE]
      ELSE IF fd >= 0 /\ fd <= 2 THEN b
      ELSE IF fd \notin b.open THEN [b EXCEPT !.ok = FALSE]
      ELSE [FdClose(FdListAppend(b, fd), fd)
              EXCEPT !.map = Append(@, << fd, Len(b.list) >>)]

RECURSIVE ForwardFds(_, _)
ForwardFds(b, values) ==
  IF values = <<>> \/ ~b.ok THEN b
  ELSE ForwardFds(ForwardFd(b, Head(values)), Tail(values))

\* lines 818-879: the descriptor list and map, the environment map
BuildFds(m) ==
  LET empty == [ ok |-> TRUE, list |-> <<>>, at |-> <<>>,
                 map |-> << <<0, 0>>, <<1, 1>>, <<2, 2>> >>,
                 open |-> OpenAtSetup ]
      std == FdListAppend(FdListAppend(FdListAppend(empty, 0), 1), 2)
      b == ForwardFds(std, opt.forward_fds)
  IN  [m EXCEPT !.ok = b.ok, !.fd_list = FdListAtCall(b), !.fds = b.map,
                !.env = IF b.ok THEN opt.env ELSE @]

\* lines 881-887
BaseFlags ==
  BitOr(IF opt.clear_env
          THEN (IF opt.host THEN FLATPAK_HOST_COMMAND_FLAGS_CLEAR_ENV
                            ELSE FLATPAK_SPAWN_FLAGS_CLEAR_ENV)
          ELSE 0,
        IF opt.watch_bus
          THEN (IF opt.host THEN FLATPAK_HOST_COMMAND_FLAGS_WATCH_BUS
                            ELSE FLATPAK_SPAWN_FLAGS_WATCH_BUS)
          ELSE 0)

\* lines 897-898 and 910-911: check_portal_version, then check_portal_supports
PidsGate(c, version_needed, supports_needed) ==
  LET v == check_portal_version(c, version_needed)
  IN  IF ~v.ok THEN v
      ELSE check_portal_supports(v.c, supports_needed)

\* lines 889-901 (--share-pids) and 902-914 (--expose-pids)
PidsBlock(m, version_needed, supports_needed, flag) ==
  IF opt.host THEN [m EXCEPT !.ok = FALSE]
  ELSE LET g == PidsGate(m.c, version_needed, supports_needed)
       IN  [m EXCEPT !.c = g.c, !.ok = g.ok,
                     !.spawn_flags = IF g.ok THEN BitOr(@, flag) ELSE @]

\* lines 881-914
BuildPids(m) ==
  LET base == [m EXCEPT !.spawn_flags = BaseFlags]
  IN  IF opt.share_pids
        THEN PidsBlock(base, 5, FLATPAK_SPAWN_SUPPORT_FLAGS_SHARE_PIDS,
                       FLATPAK_SPAWN_FLAGS_SHARE_PIDS)
      ELSE IF opt.expose_pids
        THEN PidsBlock(base, 3, FLATPAK_SPAWN_SUPPORT_FLAGS_EXPOSE_PIDS,
                       FLATPAK_SPAWN_FLAGS_EXPOSE_PIDS)
      ELSE base

\* lines 916-944: one of the three blocks
FlagBlock(m, given, flag) ==
  IF ~m.ok \/ ~given THEN m
  ELSE IF opt.host THEN [m EXCEPT !.ok = FALSE]
  ELSE [m EXCEPT !.spawn_flags = BitOr(@, flag)]

\* lines 916-944
BuildFlags(m) ==
  FlagBlock(FlagBlock(FlagBlock(m, opt.latest_version,
                                FLATPAK_SPAWN_FLAGS_LATEST_VERSION),
                      opt.sandbox, FLATPAK_SPAWN_FLAGS_SANDBOX),
            opt.no_network, FLATPAK_SPAWN_FLAGS_NO_NETWORK)

\* The orders in which a GHashTable iterator may visit the keys of a set.
IterationOrders(S) ==
  { s \in [ 1..Cardinality(S) -> S ] : \A i, j \in 1..Cardinality(S) :
                                          i # j => s[i] # s[j] }

\* lines 987-992: each key visited is prepended as "-u", key
RECURSIVE PrependUnset(_, _)
PrependUnset(order, args) ==
  IF order = <<>> THEN args
  ELSE PrependUnset(Tail(order), << "-u", Head(order) >> \o args)

\* A rewrite that never goes through /bin/sh.
UnsetEnvWrapper_without_shell(args, order) ==
  << "/usr/bin/env" >> \o PrependUnset(order, args)

\* A rewrite that goes through /bin/sh when any word of the command holds '='.
UnsetEnvWrapper_any_word(args, order) ==
  LET shell == IF \E i \in DOMAIN args : HasEquals(args[i])
                 THEN << "/bin/sh", "-euc", "exec \"$@\"", "sh" >> \o args
                 ELSE args
  IN  << "/usr/bin/env" >> \o PrependUnset(order, shell)

\* lines 977-994: the argv rewritten to go through env(1)
UnsetEnvWrapper(args, order) ==
  LET shell == IF HasEquals(args[1])
                 THEN << "/bin/sh", "-euc", "exec \"$@\"", "sh" >> \o args
                 ELSE args
  IN  << "/usr/bin/env" >> \o PrependUnset(order, shell)

\* lines 946-998
BuildUnsetEnv(m, order) ==
  IF opt.unsetenv = {} THEN m
  ELSE LET c == IF opt.host THEN m.c ELSE get_portal_version(m.c)
       IN  IF ~opt.host /\ c.version >= 5
             THEN [m EXCEPT !.c = c,
                            !.options = MapReplace(@, "unset-env", order)]
             ELSE [m EXCEPT !.c = c,
                            !.argv = UnsetEnvWrapper(@, order)]

\* lines 1000-1009 and 1011-1020: one of the two blocks
ExposeBlock(m, names, key) ==
  IF ~m.ok \/ names = <<>> THEN m
  ELSE IF opt.host THEN [m EXCEPT !.ok = FALSE]
  ELSE [m EXCEPT !.options = MapReplace(@, key, names)]

\* lines 1000-1020
BuildSandboxExpose(m) ==
  ExposeBlock(ExposeBlock(m, opt.sandbox_expose, "sandbox-expose"),
              opt.sandbox_expose_ro, "sandbox-expose-ro")

\* lines 1022-1034
BuildSandboxFlags(m) ==
  IF opt.sandbox_flags = 0 THEN m
  ELSE IF opt.host THEN [m EXCEPT !.ok = FALSE]
  ELSE LET v == check_portal_version(m.c, 3)
       IN  [m EXCEPT !.c = v.c, !.ok = v.ok,
                     !.options = IF v.ok
                                   THEN MapReplace(@, "sandbox-flags",
                                                   opt.sandbox_flags)
                                   ELSE @]

\* A loop that skips every path it cannot open.
AddPath_skip_all(b, path, ignore_errors) ==
  IF ~PathExists(path)
    THEN b
    ELSE [ ok |-> TRUE,
           list |-> Append(b.list, [fd |-> -1, path |-> path, closed |-> FALSE]),
           handles |-> Append(b.handles, Len(b.list)) ]

\* path_to_handle and one turn of add_paths_to_variant's loop
AddPath(b, path, ignore_errors) ==
  IF ~PathExists(path)
    THEN (IF ignore_errors THEN b ELSE [b EXCEPT !.ok = FALSE])
    ELSE [ ok |-> TRUE,
           list |-> Append(b.list, [fd |-> -1, path |-> path, closed |-> FALSE]),
           handles |-> Append(b.handles, Len(b.list)) ]

RECURSIVE add_paths_to_variant(_, _, _)
add_paths_to_variant(b, paths, ignore_errors) ==
  IF paths = <<>> \/ ~b.ok THEN b
  ELSE add_paths_to_variant(AddPath(b, Head(paths), ignore_errors), Tail(paths),
                            ignore_errors)

\* lines 1036-1054 and 1056-1074: the two blocks differ in the lists and the key
BuildExposePaths(m, required, best_effort, key) ==
  IF required = <<>> /\ best_effort = <<>> THEN m
  ELSE IF opt.host THEN [m EXCEPT !.ok = FALSE]
  ELSE LET v == check_portal_version(m.c, 3)
           b0 == [ ok |-> TRUE, list |-> m.fd_list, handles |-> <<>> ]
           b1 == add_paths_to_variant(b0, required, FALSE)
           b2 == add_paths_to_variant(b1, best_effort, TRUE)
       IN  IF ~v.ok THEN [m EXCEPT !.c = v.c, !.ok = FALSE]
           ELSE IF ~b2.ok THEN [m EXCEPT !.c = v.c, !.ok = FALSE, !.fd_list = b2.list]
           ELSE [m EXCEPT !.c = v.c, !.fd_list = b2.list,
                          !.options = MapReplace(@, key, b2.handles)]

\* a block runs only if main has not returned
Then(m, next) == IF m.ok THEN next ELSE m

\* lines 818-1089, block after block
SetupBlocks(m0, order) ==
  LET Pids(m) == Then(m, BuildPids(m))
      Flags(m) == Then(m, BuildFlags(m))
      UnsetEnv(m) == Then(m, BuildUnsetEnv(m, order))
      SandboxExpose(m) == Then(m, BuildSandboxExpose(m))
      SandboxFlags(m) == Then(m, BuildSandboxFlags(m))
      ExposePaths(m) == Then(m, BuildExposePaths(m, opt.sandbox_expose_path,
                                                 opt.sandbox_expose_path_try,
                                                 "sandbox-expose-fd"))
      ExposePathsRo(m) == Then(m, BuildExposePaths(m, opt.sandbox_expose_path_ro,
                                                   opt.sandbox_expose_path_ro_try,
                                                   "sandbox-expose-fd-ro"))
  IN  ExposePathsRo(ExposePaths(SandboxFlags(SandboxExpose(UnsetEnv(Flags(Pids(
        BuildFds(m0))))))))

\* lines 818-1089 in one step: every call in them is synchronous
main_setup ==
  /\ pc = "setup" /\ Running
  /\ \E order \in IterationOrders(opt.unsetenv) :
       \E m \in { SetupBlocks([ ok |-> TRUE, spawn_flags |-> spawn_flags,
                                c |-> Cache, options |-> EmptyMap,
                                argv |-> child_argv, fd_list |-> fd_list,
                                fds |-> fds, env |-> env ], order) } :
           /\ spawn_flags' = m.spawn_flags
           /\ SetCache(m.c)
           /\ options_builder' = m.options
           /\ child_argv' = m.argv
           /\ fd_list' = m.fd_list
           /\ fds' = m.fds
           /\ env' = m.env
           /\ IF m.ok
                THEN /\ opt' = [opt EXCEPT !.directory = IF @ = "" THEN "cwd" ELSE @]
                     /\ subscribed' = subscribed \cup { "NameOwnerChanged" }
                     /\ Goto("spawn")
                ELSE /\ UNCHANGED << opt, subscribed >>
                     /\ Exit(1)
  /\ UNCHANGED << envvars, budgetvars, sigvars, session_bus, inbox, service_pid,
                  remote_exited, relayvars >>

(***************************************************************************)
(* main, lines 1091-1148: the HostCommand/Spawn call and its one retry.    *)
(***************************************************************************)
\* the arguments of the call as g_variant_new builds them
SpawnCall ==
  [ method |-> IF opt.host THEN "HostCommand" ELSE "Spawn",
    bus_name |-> service_bus_name,
    directory |-> opt.directory,
    argv |-> child_argv,
    fds |-> fds,
    env |-> env,
    flags |-> spawn_flags,
    options |-> IF opt.host THEN EmptyMap ELSE options_builder,
    fd_list |-> fd_list ]

\* what the call can end with: a handle, G_DBUS_ERROR_INVALID_ARGS, another
\* error; a message cannot be written to a closed connection, nor with a
\* closed descriptor to pass along
SpawnReplies ==
  IF session_bus = "open" /\ \A h \in DOMAIN fd_list : ~fd_list[h].closed
    THEN IF service_pid >= 0
           THEN { [ kind |-> "pid", pid |-> service_pid ] }
           ELSE { [ kind |-> "pid", pid |-> p ] : p \in 0..MaxPid }
                \cup { [ kind |-> "invalid_args", pid |-> 0 ],
                       [ kind |-> "error", pid |-> 0 ] }
    ELSE { [ kind |-> "error", pid |-> 0 ] }

\* A relay that tries again after any failure while --watch-bus is set.
ShouldRetry_any_error(reply) == reply.kind # "pid" /\ opt.watch_bus

\* lines 1130-1131: the condition of the retry
ShouldRetry(reply) == reply.kind = "invalid_args" /\ opt.watch_bus

\* A retry that sends the flags again as they were.
ClearWatchBus_kept(flags) == flags

\* line 1136
ClearWatchBus(flags) ==
  BitClear(flags, IF opt.host THEN FLATPAK_HOST_COMMAND_FLAGS_WATCH_BUS
                              ELSE FLATPAK_SPAWN_FLAGS_WATCH_BUS)

\* from the label retry: the call is made, and main waits in it for the reply
main_spawn ==
  /\ pc = "spawn" /\ Running
  /\ spawn_calls' = Append(spawn_calls, SpawnCall)
  /\ Goto("awaiting")
  /\ UNCHANGED << envvars, budgetvars, optvars, sigvars, busvars, callvars,
                  portalvars, child_pid, spawn_results, signal_log, failed_forwards,
                  loop_quit >>

\* the call returns: lines 1128-1148
main_spawn_reply ==
  /\ pc = "awaiting" /\ Running
  /\ \E reply \in SpawnReplies :
       /\ UNCHANGED spawn_calls
       /\ spawn_results' = Append(spawn_results, reply.kind)
       /\ IF reply.kind = "pid"
            THEN /\ child_pid' = reply.pid
                 /\ service_pid' = reply.pid
                 /\ UNCHANGED << opt, spawn_flags >>
                 /\ Goto("loop")
          ELSE IF ShouldRetry(reply)
            THEN /\ opt' = [opt EXCEPT !.watch_bus = FALSE]
                 /\ spawn_flags' = ClearWatchBus(spawn_flags)
                 /\ UNCHANGED << child_pid, service_pid >>
                 /\ Goto("spawn")
          ELSE /\ UNCHANGED << opt, spawn_flags, child_pid, service_pid >>
               /\ Exit(1)
  /\ UNCHANGED << envvars, budgetvars, child_argv, sigvars, session_bus, subscribed,
                  inbox, remote_exited, fd_list, fds, env, options_builder,
                  portalvars, signal_log, failed_forwards, loop_quit >>

(***************************************************************************)
(* The main loop: the callbacks it dispatches.                             *)
(***************************************************************************)
\* A relay whose callbacks also run while main waits in the spawn call.
InLoop_during_call == pc \in { "awaiting", "loop" } /\ Running /\ ~loop_quit

\* the callbacks run only inside g_main_loop_run
InLoop == pc = "loop" /\ Running /\ ~loop_quit

\* A relay that hands on the low byte of the wait status as it is.
ExitCodeFor_low_byte(wait_status) == wait_status % 256

\* A relay that takes every status that is not a normal exit for a signal.
ExitCodeFor_signal_otherwise(wait_status) ==
  IF WIFEXITED(wait_status) THEN WEXITSTATUS(wait_status)
  ELSE 128 + WTERMSIG(wait_status)

\* spawn_exited_cb, lines 107-133: the exit code for a wait status
ExitCodeFor(wait_status) ==
  IF WIFEXITED(wait_status) THEN WEXITSTATUS(wait_status)
  ELSE IF WIFSIGNALED(wait_status) THEN 128 + WTERMSIG(wait_status)
  ELSE EX_SOFTWARE

\* A test that takes every notification for the relay's own.
IsOurChild_any(client_pid) == TRUE

\* spawn_exited_cb, line 103
IsOurChild(client_pid) == child_pid = client_pid

spawn_exited_cb ==
  /\ InLoop
  /\ inbox # <<>> /\ Head(inbox).t = "Exited"
  /\ inbox' = Tail(inbox)
  /\ IF Head(inbox).uu /\ IsOurChild(Head(inbox).pid)
       THEN Exit(ExitCodeFor(Head(inbox).status))
       ELSE UNCHANGED procvars
  /\ UNCHANGED << envvars, budgetvars, optvars, sigvars, session_bus, subscribed,
                  service_pid, remote_exited, callvars, portalvars, relayvars >>

\* A relay that gives up when any name loses its owner.
ServiceVanished_any_name(name, to) == to = ""

\* name_owner_changed, lines 320-321
ServiceVanished(name, to) == name = service_bus_name /\ to = ""

name_owner_changed ==
  /\ InLoop
  /\ inbox # <<>> /\ Head(inbox).t = "NameOwnerChanged"
  /\ inbox' = Tail(inbox)
  /\ IF ServiceVanished(Head(inbox).name, Head(inbox).to)
       THEN Exit(1)
       ELSE UNCHANGED procvars
  /\ UNCHANGED << envvars, budgetvars, optvars, sigvars, session_bus, subscribed,
                  service_pid, remote_exited, callvars, portalvars, relayvars >>

session_bus_closed_cb ==
  /\ InLoop
  /\ inbox # <<>> /\ Head(inbox).t = "Closed"
  /\ inbox' = Tail(inbox)
  /\ loop_quit' = TRUE
  /\ UNCHANGED << envvars, budgetvars, procvars, optvars, sigvars, session_bus,
                  subscribed, service_pid, remote_exited, callvars, portalvars,
                  child_pid, spawn_calls, spawn_results, signal_log, failed_forwards >>

\* A main that reports the end of the loop as a failure.
main_return_failure ==
  /\ pc = "loop" /\ Running /\ loop_quit
  /\ Exit(1)
  /\ UNCHANGED << envvars, budgetvars, optvars, sigvars, busvars, callvars,
                  portalvars, relayvars >>

\* g_main_loop_run returns; lines 1162-1165
main_return ==
  /\ pc = "loop" /\ Running /\ loop_quit
  /\ Exit(0)
  /\ UNCHANGED << envvars, budgetvars, optvars, sigvars, busvars, callvars,
                  portalvars, relayvars >>

\* A relay that forwards every signal under its own number.
TranslateSignal_none(sig) == sig

\* forward_signal, lines 188-189
TranslateSignal(sig) == IF sig = SIGTSTP THEN SIGSTOP ELSE sig

\* A relay that forgets SIGCONT among the process-group signals.
ToProcessGroup_no_cont(sig) == sig = SIGINT \/ sig = SIGSTOP

\* A relay that decides on the process group before it translates SIGTSTP.
ToProcessGroup_not_stop(sig) == sig = SIGINT \/ sig = SIGCONT

\* forward_signal, lines 192-193, on the translated signal
ToProcessGroup(sig) == sig = SIGINT \/ sig = SIGSTOP \/ sig = SIGCONT

\* A relay that stops itself after every relayed signal.
SelfStop_every_signal(sig, call_ok) == TRUE

\* A relay that stops itself only when the relay call succeeded.
SelfStop_on_success(sig, call_ok) == sig = SIGSTOP /\ call_ok

\* forward_signal, line 209: whether the relay stops itself after the call
SelfStop(sig, call_ok) == sig = SIGSTOP

CallEntry(from, sig, call_ok) ==
  [ k |-> "call", from |-> from, pid |-> child_pid, sig |-> sig,
    to_process_group |-> ToProcessGroup(sig), ok |-> call_ok,
    method |-> IF opt.host THEN "HostCommandSignal" ELSE "SpawnSignal" ]

RaiseEntry(from, sig) ==
  [ k |-> "raise", from |-> from, pid |-> 0, sig |-> sig,
    to_process_group |-> FALSE, ok |-> TRUE, method |-> "raise" ]

\* forward_signal_handler reading one signal from the signalfd, and forward_signal
forward_signal_handler ==
  /\ InLoop
  /\ \E sig \in pending,
        call_ok \in (IF session_bus = "open" THEN BOOLEAN ELSE { FALSE }) :
       /\ pending' = pending \ { sig }
       /\ failed_forwards' = IF child_pid # 0 /\ ~call_ok
                                THEN failed_forwards + 1
                                ELSE failed_forwards
       /\ IF child_pid = 0
            THEN IF sig \in { SIGTSTP, SIGSTOP, SIGTTIN, SIGTTOU }
                   THEN /\ signal_log' = << RaiseEntry(sig, SIGSTOP) >>
                        /\ stopped' = TRUE
                        /\ UNCHANGED << pc, exit_code, killed_by >>
                 ELSE IF sig # SIGCONT
                   THEN /\ signal_log' = << RaiseEntry(sig, sig) >>
                        /\ pc' = "killed"
                        /\ killed_by' = sig
                        /\ UNCHANGED << exit_code, stopped >>
                 ELSE /\ signal_log' = <<>>
                      /\ UNCHANGED procvars
            ELSE LET relayed == TranslateSignal(sig)
                     called == << CallEntry(sig, relayed, call_ok) >>
                 IN  IF SelfStop(relayed, call_ok)
                       THEN /\ signal_log' = Append(called, RaiseEntry(sig, SIGSTOP))
                            /\ stopped' = TRUE
                            /\ UNCHANGED << pc, exit_code, killed_by >>
                       ELSE /\ signal_log' = called
                            /\ UNCHANGED procvars
  /\ UNCHANGED << envvars, budgetvars, optvars, blocked, busvars, callvars,
                  portalvars, child_pid, spawn_calls, spawn_results, loop_quit >>

(***************************************************************************)
(* The environment: signals sent to the relay, the services, the bus.      *)
(***************************************************************************)
Alive == pc \notin { "exited", "killed" }

\* A signal of the forwarded set is sent to the relay process.
SignalArrives ==
  /\ Alive /\ sigs_left > 0
  /\ sigs_left' = sigs_left - 1
  /\ \E sig \in forward :
       IF blocked
         THEN /\ pending' = pending \cup { sig }
              /\ stopped' = IF sig = SIGCONT THEN FALSE ELSE stopped
              /\ UNCHANGED << pc, exit_code, killed_by >>
       ELSE IF sig = SIGCONT
         THEN /\ stopped' = FALSE
              /\ UNCHANGED << pending, pc, exit_code, killed_by >>
       ELSE IF sig = SIGTSTP
         THEN /\ stopped' = TRUE
              /\ UNCHANGED << pending, pc, exit_code, killed_by >>
       ELSE /\ pc' = "killed"
            /\ killed_by' = sig
            /\ UNCHANGED << pending, exit_code, stopped >>
  /\ UNCHANGED << envvars, msgs_left, optvars, blocked, busvars, callvars,
                  portalvars, relayvars >>

Msg(t, pid, status, uu, name, to) ==
  [ t |-> t, pid |-> pid, status |-> status, uu |-> uu, name |-> name, to |-> to ]

\* the wait status in notifications that are not about the relay's command
StrayStatuses == { 0 }

\* The service announces the end of the relay's command, with its wait status.
EmitChildExited ==
  /\ Alive /\ msgs_left > 0
  /\ session_bus = "open" /\ "Exited" \in subscribed
  /\ service_pid >= 0 /\ ~remote_exited
  /\ msgs_left' = msgs_left - 1
  /\ remote_exited' = TRUE
  /\ inbox' = Append(inbox, Msg("Exited", service_pid, remote_status, TRUE, "", ""))
  /\ UNCHANGED << envvars, sigs_left, procvars, optvars, sigvars, session_bus,
                  subscribed, service_pid, callvars, portalvars, relayvars >>

\* An exit signal that is not the one of the relay's command reaches the relay.
EmitStrayExited ==
  /\ Alive /\ msgs_left > 0
  /\ session_bus = "open" /\ "Exited" \in subscribed
  /\ msgs_left' = msgs_left - 1
  /\ \E pid \in 0..MaxPid, status \in StrayStatuses, uu \in BOOLEAN :
       /\ uu <=> pid # service_pid
       /\ inbox' = Append(inbox, Msg("Exited", pid, status, uu, "", ""))
  /\ UNCHANGED << envvars, sigs_left, procvars, optvars, sigvars, session_bus,
                  subscribed, service_pid, remote_exited, callvars, portalvars,
                  relayvars >>

BusNames == { "org.freedesktop.Flatpak", "org.freedesktop.portal.Flatpak" }

\* The bus daemon announces a change of owner of some name.
EmitNameOwnerChanged ==
  /\ Alive /\ msgs_left > 0
  /\ session_bus = "open" /\ "NameOwnerChanged" \in subscribed
  /\ msgs_left' = msgs_left - 1
  /\ \E name \in BusNames, to \in { "", ":1.42" } :
       inbox' = Append(inbox, Msg("NameOwnerChanged", 0, 0, TRUE, name, to))
  /\ UNCHANGED << envvars, sigs_left, procvars, optvars, sigvars, session_bus,
                  subscribed, service_pid, remote_exited, callvars, portalvars,
                  relayvars >>

\* The connection to the bus closes; GDBus queues the "closed" emission.
BusCloses ==
  /\ Alive /\ msgs_left > 0
  /\ session_bus = "open"
  /\ msgs_left' = msgs_left - 1
  /\ session_bus' = "closed"
  /\ inbox' = Append(inbox, Msg("Closed", 0, 0, TRUE, "", ""))
  /\ UNCHANGED << envvars, sigs_left, procvars, optvars, sigvars, subscribed,
                  service_pid, remote_exited, callvars, portalvars, relayvars >>

(***************************************************************************)
(* Specifications.                                                         *)
(***************************************************************************)
Next ==
  \/ main_parse
  \/ forward_signals
  \/ main_bus_get
  \/ main_setup
  \/ main_spawn
  \/ main_spawn_reply
  \/ spawn_exited_cb
  \/ name_owner_changed
  \/ session_bus_closed_cb
  \/ main_return
  \/ forward_signal_handler
  \/ SignalArrives
  \/ EmitChildExited
  \/ EmitStrayExited
  \/ EmitNameOwnerChanged
  \/ BusCloses

\* command lines: some options, then a command
Commands == { << "some-command" >> }

CmdLines(tokens, n) ==
  { o \o c : o \in SeqsUpTo(tokens, n), c \in Commands \cup { <<>> } }

\* the command lines of the relay-centred runs
RelayLines ==
  { << "some-command" >>, << "--host", "some-command" >>,
    << "--watch-bus", "some-command" >>,
    << "--host", "--watch-bus", "some-command" >>, << "--host" >>, << >> }

\* Runs centred on the relay loop: few options, every event of the loop.
Init ==
  InitWith(RelayLines, { 6 }, { 1 }, { {} }, { 0 }, MaxSignals, MaxMsgs)

Spec == Init /\ [][Next]_vars

\* main runs on once g_main_loop_run has returned
SpecLive == Spec /\ WF_vars(main_return)

(***************************************************************************)
(* Runs centred on the options: many command lines, up to the spawn call.  *)
(***************************************************************************)
NextSetup ==
  \/ main_parse
  \/ forward_signals
  \/ main_bus_get
  \/ main_setup
  \/ main_spawn
  \/ main_spawn_reply

\* the options that only the subsandbox portal serves
SubsandboxTokens ==
  { "--expose-pids", "--share-pids", "--latest-version", "--sandbox",
    "--no-network", "--sandbox-flag=share-display", "--sandbox-flag=1",
    "--sandbox-flag=4294967296", "--sandbox-expose=NAME",
    "--sandbox-expose-ro=NAME", "--sandbox-expose-path=/",
    "--sandbox-expose-path-ro=/", "--sandbox-expose-path-try=/",
    "--sandbox-expose-path-try=/nonexistent", "--sandbox-expose-path-ro-try=/" }

\* options that both services serve
CommonTokens ==
  { "--watch-bus", "--clear-env", "--env=A=1", "--unset-env=A", "--forward-fd=4",
    "--directory=/dev", "--verbose" }

\* command lines with --host somewhere among at most n other options
HostLines(tokens, n) ==
  UNION { { SubSeq(o, 1, k) \o << "--host" >> \o SubSeq(o, k + 1, Len(o)) \o c :
              k \in 0..Len(o), c \in Commands } : o \in SeqsUpTo(tokens, n) }

InitHost ==
  InitWith(HostLines(SubsandboxTokens \cup CommonTokens, MaxOpts),
           { 6 }, { 1 }, { {} }, { 0 }, 0, 0)

SpecHost == InitHost /\ [][NextSetup]_vars

\* the pid options among other options, against every portal: its version,
\* its capabilities, and which of the first two property reads fail
GateTokens == { "--expose-pids", "--share-pids", "--host", "--clear-env" }

InitGate ==
  InitWith(CmdLines(GateTokens, MaxOpts), 0..6, 0..3, SUBSET { 1, 2 }, { 0 }, 0, 0)

SpecGate == InitGate /\ [][NextSetup]_vars

(***************************************************************************)
(* Runs centred on the exit notification: one command line, every wait     *)
(* status of interest, a service that only answers and announces exits.    *)
(***************************************************************************)
\* exit codes 0..255, signals with and without the core-dump bit, and
\* statuses that are neither: stopped, continued
WaitStatuses ==
  { c * 256 : c \in 0..255 }
    \cup { n + core : n \in 1..127, core \in { 0, 128 } }
    \cup { 127 + SIGSTOP * 256, 65535 }

InitExit ==
  InitWith({ << "some-command" >>, << "--host", "some-command" >> },
           { 6 }, { 1 }, { {} }, WaitStatuses, 0, MaxMsgs)

NextExit ==
  \/ main_parse
  \/ forward_signals
  \/ main_bus_get
  \/ main_setup
  \/ main_spawn
  \/ main_spawn_reply
  \/ spawn_exited_cb
  \/ EmitChildExited
  \/ EmitStrayExited

SpecExit == InitExit /\ [][NextExit]_vars

(***************************************************************************)
(* Properties.                                                             *)
(***************************************************************************)
\* The main loop dispatches the exit notification at the head of the queue,
\* and that notification is well-formed and carries the handle the service
\* returned from the spawn call.
MatchingExitDispatched ==
  /\ pc = "loop" /\ ~stopped /\ ~loop_quit
  /\ inbox # <<>>
  /\ Head(inbox).t = "Exited" /\ Head(inbox).uu
  /\ Head(inbox).pid = service_pid
  /\ inbox' = Tail(inbox)

\* C1: when an exit notification for the handle the spawn call returned
\* arrives with a wait status that encodes a normal exit with code c (c << 8),
\* the relay terminates with exit code exactly c, for every c in 0..255.
C1_NormalExitCode ==
  [][ \A c \in 0..255 :
        (MatchingExitDispatched /\ Head(inbox).status = c * 256)
          => (pc' = "exited" /\ exit_code' = c) ]_vars

\* C1 witness: the command ended with exit (23), announced as 23 << 8, and
\* the relay has terminated with 23.
C1_Witness ==
  /\ remote_status = 23 * 256
  /\ remote_exited
  /\ pc = "exited" /\ exit_code = 23

\* C2: when the exit notification for the held handle carries a wait status
\* meaning "terminated by signal N", with or without the core-dump bit 0x80,
\* the relay terminates with exit code 128 + N.
C2_SignalExitCode ==
  [][ \A N \in 1..126, core \in { 0, 128 } :
        (MatchingExitDispatched /\ Head(inbox).status = N + core)
          => (pc' = "exited" /\ exit_code' = 128 + N) ]_vars

\* C2 witness: the command was killed by SIGSEGV with a core dump (11 | 0x80)
\* and the relay has terminated with 139.
C2_Witness ==
  /\ remote_status = 11 + 128
  /\ remote_exited
  /\ pc = "exited" /\ exit_code = 139

\* The Relaying state: the loop runs and the relay holds the handle of the
\* spawn call (forward_signal takes child_pid = 0 for "no handle yet").
Relaying == pc = "loop" /\ ~stopped /\ ~loop_quit /\ child_pid # 0

\* forward_signal_handler takes the captured signal sig off the signalfd.
Captured(sig) == sig \in pending /\ pending' = pending \ { sig }

\* the signal-relay calls in the record of the latest forward_signal
RelayCalls == { e \in { signal_log[i] : i \in DOMAIN signal_log } : e.k = "call" }

\* C3: in the Relaying state a captured SIGTSTP is relayed with the number of
\* SIGSTOP, never its own; each of SIGHUP, SIGINT, SIGQUIT, SIGTERM, SIGCONT,
\* SIGUSR1, SIGUSR2 is relayed with its own number; the pid argument is the
\* handle the spawn call returned.
C3_RelayedSignalNumber ==
  [][ \A sig \in { SIGTSTP, SIGHUP, SIGINT, SIGQUIT, SIGTERM, SIGCONT, SIGUSR1,
                   SIGUSR2 } :
        (Relaying /\ Captured(sig))
          => /\ signal_log' # <<>>
             /\ signal_log'[1].k = "call"
             /\ signal_log'[1].from = sig
             /\ signal_log'[1].sig = (IF sig = SIGTSTP THEN SIGSTOP ELSE sig)
             /\ signal_log'[1].sig # SIGTSTP
             /\ signal_log'[1].pid = service_pid ]_vars

\* C3 witness: a captured SIGTSTP has been relayed as SIGSTOP for the handle.
C3_Witness ==
  \E e \in RelayCalls :
    e.from = SIGTSTP /\ e.sig = SIGSTOP /\ e.pid = service_pid /\ service_pid > 0

\* C4: in every signal-relay call the relay issues, toProcessGroup is true
\* if and only if the signal number relayed, after the translation of
\* SIGTSTP, is SIGINT, SIGSTOP or SIGCONT.
C4_ToProcessGroup ==
  \A e \in RelayCalls :
    e.to_process_group <=> e.sig \in { SIGINT, SIGSTOP, SIGCONT }

\* C4 witness: SIGCONT has been relayed to the process group.
C4_Witness ==
  \E e \in RelayCalls : e.sig = SIGCONT /\ e.to_process_group

\* C5 as the specification states it: a forwarded SIGTSTP gives a call with
\* SIGSTOP's number and toProcessGroup false; a forwarded SIGINT gives a call
\* with SIGINT's number and toProcessGroup true.
C5_AsStated ==
  \A e \in RelayCalls :
    /\ e.from = SIGTSTP => (e.sig = SIGSTOP /\ e.to_process_group = FALSE)
    /\ e.from = SIGINT => (e.sig = SIGINT /\ e.to_process_group = TRUE)

\* C5, amended: a forwarded SIGTSTP gives a call with SIGSTOP's number and
\* toProcessGroup true, as for any relayed SIGSTOP; a forwarded SIGINT gives
\* a call with SIGINT's number and toProcessGroup true.
C5_TstpToProcessGroup ==
  \A e \in RelayCalls :
    /\ e.from = SIGTSTP => (e.sig = SIGSTOP /\ e.to_process_group = TRUE)
    /\ e.from = SIGINT => (e.sig = SIGINT /\ e.to_process_group = TRUE)

\* C5 witness: a forwarded SIGTSTP went to the process group as SIGSTOP.
C5_Witness ==
  \E e \in RelayCalls :
    e.from = SIGTSTP /\ e.sig = SIGSTOP /\ e.to_process_group /\ stopped

\* The main loop dispatches the NameOwnerChanged notification at the head of
\* the queue.
NameOwnerChangedDispatched ==
  /\ pc = "loop" /\ ~stopped /\ ~loop_quit
  /\ inbox # <<>>
  /\ Head(inbox).t = "NameOwnerChanged"
  /\ inbox' = Tail(inbox)

\* the bus name of the spawn service for the command line given
SpawnServiceName ==
  IF \E i \in DOMAIN argv : argv[i] = "--host"
    THEN "org.freedesktop.Flatpak"
    ELSE "org.freedesktop.portal.Flatpak"

\* C6: while the loop runs, a NameOwnerChanged for the bus name of the spawn
\* service with an empty new owner makes the relay exit with code 1; one for
\* another name, or with a new owner, does not terminate the relay and
\* leaves its handle unchanged.
C6_ServiceVanished ==
  [][ NameOwnerChangedDispatched
        => IF Head(inbox).name = SpawnServiceName /\ Head(inbox).to = ""
             THEN pc' = "exited" /\ exit_code' = 1
             ELSE /\ pc' = "loop" /\ exit_code' = exit_code
                  /\ child_pid' = child_pid /\ ~loop_quit' ]_vars

\* C6 witness: the spawn call had returned a handle and the relay has left
\* with 1 on the notification that the service lost its name.
C6_Witness ==
  /\ service_pid > 0
  /\ pc = "exited" /\ exit_code = 1
  /\ ~remote_exited

\* The main loop dispatches the "closed" signal of the connection.
ClosedDispatched ==
  /\ pc = "loop" /\ ~stopped /\ ~loop_quit
  /\ inbox # <<>>
  /\ Head(inbox).t = "Closed"
  /\ inbox' = Tail(inbox)

\* C7: when the bus connection closes under the running loop, the relay
\* stops the loop; once the loop is stopped the only way the relay ends is
\* with exit status 0, and it does end so.
C7_BusClosedExitsZero ==
  /\ [][ /\ ClosedDispatched => (loop_quit' /\ pc' = "loop")
         /\ (pc = "loop" /\ loop_quit)
              => \/ (pc' = "loop" /\ loop_quit')
                 \/ (pc' = "exited" /\ exit_code' = 0) ]_vars
  /\ (pc = "loop" /\ loop_quit) ~> (pc = "exited" /\ exit_code = 0)

\* C7 witness: the connection closed, the loop was stopped, main returned 0.
C7_Witness ==
  /\ session_bus = "closed"
  /\ loop_quit
  /\ pc = "exited" /\ exit_code = 0

\* --watch-bus is among the options of the command line
WatchBusRequested == \E i \in DOMAIN argv : argv[i] = "--watch-bus"

\* the watch-bus bit: 1 << 1 in host mode, 1 << 4 in subsandbox mode
WatchBusBit ==
  IF \E i \in DOMAIN argv : argv[i] = "--host" THEN 2 ELSE 16

\* C8: if the first HostCommand/Spawn call fails with invalid arguments and
\* --watch-bus was requested, the relay resubmits the call exactly once, with
\* the watch-bus bit cleared and everything else as in the first call; the
\* service sees exactly two calls, and never more than one otherwise.
C8_WatchBusRetry ==
  /\ Len(spawn_calls) <= 2
  /\ Len(spawn_calls) = 2
       => (spawn_results[1] = "invalid_args" /\ WatchBusRequested)
  /\ ( /\ spawn_results # <<>>
       /\ spawn_results[1] = "invalid_args"
       /\ WatchBusRequested
       /\ pc # "spawn" )
       => /\ Len(spawn_calls) = 2
          /\ BitAnd(spawn_calls[1].flags, WatchBusBit) = WatchBusBit
          /\ spawn_calls[2].flags = spawn_calls[1].flags - WatchBusBit
          /\ spawn_calls[2] = [spawn_calls[1] EXCEPT !.flags = spawn_calls[2].flags]

\* C8 witness: the first call was refused with invalid arguments, the second
\* went through, and the relay is in its loop.
C8_Witness ==
  /\ WatchBusRequested
  /\ spawn_results = << "invalid_args", "pid" >>
  /\ pc = "loop"

\* the option names of the command line that are given before the command
OptionGiven(names) ==
  \E i \in 1..CountOptions(argv) :
    argv[i] \in DOMAIN OptionTokens /\ OptionTokens[argv[i]][1] \in names

SubsandboxOnly ==
  { "expose-pids", "share-pids", "latest-version", "sandbox", "no-network",
    "sandbox-flag", "sandbox-expose", "sandbox-expose-ro", "sandbox-expose-path",
    "sandbox-expose-path-ro", "sandbox-expose-path-try",
    "sandbox-expose-path-ro-try" }

\* no call has reached either service
NoRemoteCall ==
  /\ spawn_calls = <<>>
  /\ prop_reads = <<>>

\* C9 as the specification states it: a subsandbox-only option given with
\* --host, alone or among other options, makes the relay exit with code 1
\* without a spawn call or a property read reaching either service.
C9_AsStated ==
  (OptionGiven({ "host" }) /\ OptionGiven(SubsandboxOnly))
    => (NoRemoteCall /\ (pc = "exited" => exit_code = 1))

\* HostCommand has been called for a command line with --host and
\* --sandbox-flag: the flag value did not fit the int that holds the flags.
C9_FlagLost ==
  /\ OptionGiven({ "host" }) /\ OptionGiven({ "sandbox-flag" })
  /\ spawn_calls # <<>>
  /\ opt.sandbox_flags = 0

\* --expose-pids / --share-pids is among the options
ExposePidsRequested == OptionGiven({ "expose-pids" })
SharePidsRequested == OptionGiven({ "share-pids" })

\* the portal answers both reads and reports at least this version and the
\* expose-pids bit among its capabilities
PortalMeets(version_needed) ==
  /\ read_fails = {}
  /\ portal_version >= version_needed
  /\ (portal_supports \div 1) % 2 = 1

\* C10: a Spawn call carries the expose-pids flag only if the portal reports
\* version >= 3 and the expose-pids capability, and the share-pids flag only
\* if it reports version >= 5 and that capability; when a pid option is
\* requested and its requirement is unmet, the relay exits with code 1 and
\* no Spawn call is issued.
C10_PidsGate ==
  /\ \A i \in DOMAIN spawn_calls :
       /\ (spawn_calls[i].flags \div 32) % 2 = 1 => PortalMeets(3)
       /\ (spawn_calls[i].flags \div 128) % 2 = 1 => PortalMeets(5)
  /\ ( \/ ExposePidsRequested /\ ~PortalMeets(3)
       \/ SharePidsRequested /\ ~PortalMeets(5) )
       => /\ spawn_calls = <<>>
          /\ pc \notin { "spawn", "loop" }
          /\ pc = "exited" => exit_code = 1

\* C10 witness: --expose-pids against a portal of version 6 without the
\* capability: both properties were read and the relay has left with 1.
C10_Witness ==
  /\ ExposePidsRequested /\ ~OptionGiven({ "host" })
  /\ portal_version = 6 /\ portal_supports = 0
  /\ prop_reads = << "version", "supports" >>
  /\ pc = "exited" /\ exit_code = 1

(***************************************************************************)
(* Runs centred on the environment options: up to MaxEdits of them, in     *)
(* every order, with and without a command.                                *)
(***************************************************************************)
EnvTokens ==
  { "--env=A=1", "--env=A=2", "--env=B=", "--env=bad", "--unset-env=A",
    "--unset-env=B", "--env-fd=4", "--env-fd=5" }

InitEnv ==
  InitWith(CmdLines(EnvTokens, MaxEdits), { 6 }, { 1 }, { {} }, { 0 }, 0, 0)

SpecEnv == InitEnv /\ [][NextSetup]_vars

\* What one option asks for, read off its text: the edits it makes, in order.
EditsOf(token) ==
  CASE token = "--env=A=1" -> << [var |-> "A", set |-> TRUE, val |-> "1"] >>
    [] token = "--env=A=2" -> << [var |-> "A", set |-> TRUE, val |-> "2"] >>
    [] token = "--env=B=" -> << [var |-> "B", set |-> TRUE, val |-> ""] >>
    [] token = "--unset-env=A" -> << [var |-> "A", set |-> FALSE, val |-> ""] >>
    [] token = "--unset-env=B" -> << [var |-> "B", set |-> FALSE, val |-> ""] >>
    [] token = "--env-fd=4" -> << [var |-> "A", set |-> TRUE, val |-> "2"],
                                  [var |-> "B", set |-> TRUE, val |-> ""] >>
    [] OTHER -> << >>

RECURSIVE EditsOfLine(_)
EditsOfLine(tokens) ==
  IF tokens = << >> THEN << >>
  ELSE EditsOf(Head(tokens)) \o EditsOfLine(Tail(tokens))

\* the edits of var, in the order given
EditsTo(var, edits) == SelectSeq(edits, LAMBDA e : e.var = var)

EnvNames == { "A", "B" }

OptionsParsed == pc # "start" /\ opt.ok

\* C11: once the options are parsed, every variable is in the state its last
\* edit left it in: set, and then the environment map holds it with that
\* edit's value and the unset set does not hold it; or unset, and then the
\* unset set holds it and the map does not; or never edited, and then it is in
\* neither.  No name is in both.
C11_LastEditWins ==
  OptionsParsed =>
    /\ DOMAIN opt.env \cap opt.unsetenv = {}
    /\ \A var \in EnvNames :
         LET edits == EditsTo(var, EditsOfLine(SubSeq(argv, 1, CountOptions(argv))))
         IN  IF edits = << >>
               THEN var \notin DOMAIN opt.env /\ var \notin opt.unsetenv
               ELSE IF edits[Len(edits)].set
                 THEN /\ var \in DOMAIN opt.env
                      /\ opt.env[var] = edits[Len(edits)].val
                      /\ var \notin opt.unsetenv
                 ELSE var \in opt.unsetenv /\ var \notin DOMAIN opt.env

\* --env=A=1 --unset-env=A --env=A=2 has been parsed
C11_Witness ==
  /\ OptionsParsed
  /\ argv = << "--env=A=1", "--unset-env=A", "--env=A=2", "some-command" >>
  /\ opt.env = ("A" :> "2")
  /\ opt.unsetenv = {}


(***************************************************************************)
(* Runs centred on the argv sent: commands with and without '=' in their   *)
(* name, arguments that look like options, and the options that rewrite    *)
(* the argv, against portals of every relevant version.                    *)
(***************************************************************************)
ArgTokens == { "arg2", "--host", "--unset-env=A" }

ArgvCommands ==
  { << c >> \o a : c \in { "some-command", "some=command" },
                   a \in SeqsUpTo(ArgTokens, MaxArgs) }

ArgvTokens == { "--host", "--unset-env=A", "--unset-env=NOPE", "--env=A=1" }

ArgvLines ==
  { o \o c : o \in SeqsUpTo(ArgvTokens, MaxOpts), c \in ArgvCommands \cup { <<>> } }

InitArgv ==
  InitWith(ArgvLines, { 4, 5 }, { 1 }, SUBSET { 1 }, { 0 }, 0, 0)

SpecArgv == InitArgv /\ [][NextSetup]_vars

\* the position of the first argument that does not start with '-', or one
\* past the end
FirstCommandIndex ==
  IF \E i \in 1..Len(argv) : ~StartsWithDash(argv[i])
    THEN CHOOSE i \in 1..Len(argv) :
           /\ ~StartsWithDash(argv[i])
           /\ \A j \in 1..(i - 1) : StartsWithDash(argv[j])
    ELSE Len(argv) + 1

\* the arguments before the command, and the command with its arguments
GivenOptions == SubSeq(argv, 1, FirstCommandIndex - 1)
GivenCommand == SubSeq(argv, FirstCommandIndex, Len(argv))

IsGiven(token) == \E i \in DOMAIN GivenOptions : GivenOptions[i] = token

\* the names the options leave unset
UnsetNames ==
  { var \in { "A", "NOPE" } :
      LET edits == SelectSeq(GivenOptions,
                     LAMBDA t : t \in { "--unset-env=" \o var, "--env=" \o var \o "=1" })
      IN  edits # << >> /\ edits[Len(edits)] = "--unset-env=" \o var }

\* the portal answered the version read with at least this version
PortalReports(version_needed) ==
  /\ \E i \in DOMAIN prop_reads : prop_reads[i] = "version" /\ i \notin read_fails
  /\ portal_version >= version_needed

\* the interface spoken to has no structured unset-env
LacksUnsetEnv == IsGiven("--host") \/ ~PortalReports(5)

\* the command as env(1) must be given it
ShellWrapped ==
  IF GivenCommand[1] = "some=command"
    THEN << "/bin/sh", "-euc", "exec \"$@\"", "sh" >> \o GivenCommand
    ELSE GivenCommand

\* C12: with names to unset, a call to an interface without structured
\* unset-env (the host service, or a portal that reports a version below 5)
\* has an argv of /usr/bin/env, one "-u NAME" pair per unset name, then the
\* original argv (shell-wrapped if its first word holds '='), and carries no
\* "unset-env" option; a Spawn call to a portal reporting version >= 5 has the
\* original argv and an "unset-env" option listing exactly the unset names.
C12_UnsetEnvFallback ==
  \A i \in DOMAIN spawn_calls :
    LET call == spawn_calls[i]
        k == Cardinality(UnsetNames)
    IN  UnsetNames # {} =>
          IF LacksUnsetEnv
            THEN /\ Len(call.argv) = 1 + 2 * k + Len(ShellWrapped)
                 /\ call.argv[1] = "/usr/bin/env"
                 /\ \A j \in 1..k : call.argv[2 * j] = "-u"
                 /\ { call.argv[2 * j + 1] : j \in 1..k } = UnsetNames
                 /\ SubSeq(call.argv, 2 * k + 2, Len(call.argv)) = ShellWrapped
                 /\ "unset-env" \notin DOMAIN call.options
            ELSE /\ call.argv = GivenCommand
                 /\ "unset-env" \in DOMAIN call.options
                 /\ Len(call.options["unset-env"]) = k
                 /\ { call.options["unset-env"][j] : j \in 1..k } = UnsetNames

\* some=command with two names unset has gone to a portal of version 4
\* through env(1) and /bin/sh
C12_Witness ==
  /\ argv = << "--unset-env=A", "--unset-env=NOPE", "some=command" >>
  /\ portal_version = 4
  /\ Len(spawn_calls) = 1
  /\ spawn_calls[1].method = "Spawn"
  /\ spawn_calls[1].argv[1] = "/usr/bin/env"
  /\ Len(spawn_calls[1].argv) = 10

\* C13: the first argument that does not start with '-' begins the command:
\* when no unset-env wrapper is injected the argv of every call is that
\* argument and all that follow it, unchanged, and what follows the command
\* name is never read as an option of the relay: the service called and the
\* names unset depend on the arguments before the command only.
C13_ArgvPassthrough ==
  \A i \in DOMAIN spawn_calls :
    LET call == spawn_calls[i]
    IN  /\ (UnsetNames = {} \/ ~LacksUnsetEnv) => call.argv = GivenCommand
        /\ call.method = (IF IsGiven("--host") THEN "HostCommand" ELSE "Spawn")
        /\ opt.unsetenv = UnsetNames

\* a command whose arguments are spelled like options of the relay has been
\* sent to the portal as given
C13_Witness ==
  /\ argv = << "--env=A=1", "some-command", "--host", "--unset-env=A" >>
  /\ Len(spawn_calls) = 1
  /\ spawn_calls[1].method = "Spawn"
  /\ spawn_calls[1].argv = << "some-command", "--host", "--unset-env=A" >>


(***************************************************************************)
(* Runs centred on the descriptors: up to MaxFds descriptor options, in    *)
(* every order and with repetitions.                                       *)
(***************************************************************************)
FdTokens ==
  { "--forward-fd=0", "--forward-fd=1", "--forward-fd=2", "--forward-fd=4",
    "--forward-fd=5", "--forward-fd=6", "--env-fd=4", "--host" }

InitFds ==
  InitWith(CmdLines(FdTokens, MaxFds), { 6 }, { 1 }, { {} }, { 0 }, 0, 0)

SpecFds == InitFds /\ [][NextSetup]_vars

\* the descriptor numbers asked for with --forward-fd, 0, 1 and 2 left out
ForwardedValues ==
  { n \in { 4, 5, 6 } :
      IsGiven(CASE n = 4 -> "--forward-fd=4" [] n = 5 -> "--forward-fd=5"
                [] OTHER -> "--forward-fd=6") }

\* the entries of a descriptor map under one key
EntriesFor(map, key) == { j \in DOMAIN map : map[j][1] = key }

\* C14, as stated: the descriptor map of every call that reached the service
\* has one entry for each of 0, 1, 2 and exactly one for each distinct other
\* value given with --forward-fd, no other key, and the handles are distinct
\* indices into the descriptor list of the call.
C14_AsStated ==
  \A i \in DOMAIN spawn_calls :
    LET call == spawn_calls[i]
    IN  (i \in DOMAIN spawn_results /\ spawn_results[i] = "pid") =>
          /\ \A key \in { 0, 1, 2 } \cup ForwardedValues :
               Cardinality(EntriesFor(call.fds, key)) = 1
          /\ \A j \in DOMAIN call.fds :
               /\ call.fds[j][1] \in { 0, 1, 2 } \cup ForwardedValues
               /\ call.fds[j][2] \in 0..(Len(call.fd_list) - 1)
          /\ \A j, k \in DOMAIN call.fds :
               j # k => call.fds[j][2] # call.fds[k][2]

\* What happens instead: the service has answered a call whose map holds the
\* key 4 twice.
C14_KeyTwice ==
  /\ argv = << "--forward-fd=4", "--forward-fd=5", "--forward-fd=4",
               "--forward-fd=6", "some-command" >>
  /\ spawn_results = << "pid" >>
  /\ spawn_calls[1].fds = << <<0, 0>>, <<1, 1>>, <<2, 2>>, <<4, 3>>, <<5, 4>>,
                             <<4, 5>>, <<6, 6>> >>

\* the command line without its --forward-fd options of value 0, 1 or 2
RECURSIVE WithoutStdFds(_)
WithoutStdFds(tokens) ==
  IF tokens = << >> THEN << >>
  ELSE IF Head(tokens) \in { "--forward-fd=0", "--forward-fd=1", "--forward-fd=2" }
    THEN WithoutStdFds(Tail(tokens))
    ELSE << Head(tokens) >> \o WithoutStdFds(Tail(tokens))

\* C15, as stated: a --forward-fd option of value 0, 1 or 2 is ignored: the
\* relay does not fail because of it but goes on to the call, and the
\* descriptor map it sends is the one it sends without that option.  Checked
\* on the command lines whose only other option is --host, where that map
\* is the one of 0, 1 and 2.
C15_AsStated ==
  LET std == SelectSeq(GivenOptions,
               LAMBDA t : t \in { "--forward-fd=0", "--forward-fd=1", "--forward-fd=2" })
      others == WithoutStdFds(GivenOptions)
  IN  ( /\ std # << >>
        /\ \A j \in DOMAIN others : others[j] = "--host"
        /\ GivenCommand # << >> )
        => /\ (pc = "exited" /\ session_bus = "open") => spawn_calls # << >>
           /\ \A i \in DOMAIN spawn_calls :
                spawn_calls[i].fds = << <<0, 0>>, <<1, 1>>, <<2, 2>> >>

\* What happens instead: --forward-fd=0 ends the relay with status 1 once the
\* bus connection is open, and no call is made.
C15_ZeroRejected ==
  /\ argv = << "--forward-fd=0", "some-command" >>
  /\ session_bus = "open"
  /\ pc = "exited" /\ exit_code = 1
  /\ spawn_calls = << >>


\* no argument of the command line is a command: all start with '-'
NoCommandGiven == \A i \in DOMAIN argv : StartsWithDash(argv[i])

C17_SignalsBeforeBus ==
  /\ forward = { SIGHUP, SIGINT, SIGQUIT, SIGTERM, SIGCONT, SIGTSTP, SIGUSR1,
                 SIGUSR2 }
  /\ session_bus # "NULL" => blocked
  /\ pc = "signals" => session_bus = "NULL" /\ ~blocked
  /\ (pc = "exited" /\ ~blocked)
       => /\ exit_code = 1
          /\ session_bus = "NULL"
          /\ spawn_calls = << >>
          /\ prop_reads = << >>
          /\ signal_log = << >>

\* a command line that parses, and the relay has exited with 1 because the
\* signal source could not be installed
C17_Witness ==
  /\ argv = << "some-command" >>
  /\ pc = "exited"
  /\ exit_code = 1
  /\ ~blocked
  /\ session_bus = "NULL"

(***************************************************************************)
(* Runs in which signals are sent to the relay only while main waits for   *)
(* the reply to its HostCommand/Spawn call.                                *)
(***************************************************************************)
\* A signal of the forwarded set is sent while the call is outstanding.
SignalArrivesAwaitingHandle == pc = "awaiting" /\ SignalArrives

NextAwait ==
  \/ main_parse
  \/ forward_signals
  \/ main_bus_get
  \/ main_setup
  \/ main_spawn
  \/ main_spawn_reply
  \/ forward_signal_handler
  \/ SignalArrivesAwaitingHandle

InitAwait ==
  InitWith({ << "some-command" >>, << "--host", "some-command" >>,
             << "--watch-bus", "some-command" >> },
           { 6 }, { 1 }, { {} }, { 0 }, MaxSignals, 0)

SpecAwait == InitAwait /\ [][NextAwait]_vars

\* C18, as stated: a captured signal that arrives between the submission of
\* the spawn call and its reply is never relayed, then or later: no
\* HostCommandSignal/SpawnSignal call is made for it.
C18_AsStated == RelayCalls = {}

\* What happens instead: the signal stays pending on the signalfd while main
\* waits, and once the handle is known and the loop runs it is relayed for
\* that handle.
C18_RelayedLater ==
  /\ argv = << "some-command" >>
  /\ pc = "loop"
  /\ child_pid # 0
  /\ pending = {}
  /\ \E e \in RelayCalls :
       e.from = SIGTERM /\ e.sig = SIGTERM /\ e.pid = child_pid
                        /\ e.method = "SpawnSignal"


(***************************************************************************)
(* Runs centred on the options --app-path and --usr-path.                  *)
(***************************************************************************)
PathTokens ==
  { "--app-path=/dev", "--app-path=", "--app-path=/nonexistent", "--usr-path=/",
    "--usr-path=", "--usr-path=/nonexistent", "--sandbox-expose-path=/", "--host" }

InitPaths ==
  InitWith(CmdLines(PathTokens, MaxOpts), { 6 }, { 1 }, { {} }, { 0 }, 0, 0)

SpecPaths == InitPaths /\ [][NextSetup]_vars

\* a command for the portal, with --app-path or --usr-path naming a path that
\* exists (or an empty --app-path), and nothing else
AppUsrPathsGiven ==
  /\ GivenCommand # << >>
  /\ GivenOptions # << >>
  /\ \A i \in DOMAIN GivenOptions :
       GivenOptions[i] \in { "--app-path=/dev", "--app-path=", "--usr-path=/" }

\* C19, as stated: in subsandbox mode --app-path=PATH and --usr-path=PATH are
\* accepted, and every Spawn call carries "app-fd" for a non-empty --app-path
\* and "usr-fd" for --usr-path, each the index of a passed descriptor.
C19_AsStated ==
  [][ AppUsrPathsGiven =>
        /\ pc = "start" => pc' # "exited"
        /\ \A i \in DOMAIN spawn_calls' :
             LET call == spawn_calls'[i]
             IN  /\ IsGiven("--app-path=/dev") =>
                      /\ "app-fd" \in DOMAIN call.options
                      /\ call.options["app-fd"] \in 0..(Len(call.fd_list) - 1)
                 /\ IsGiven("--usr-path=/") =>
                      /\ "usr-fd" \in DOMAIN call.options
                      /\ call.options["usr-fd"] \in 0..(Len(call.fd_list) - 1) ]_vars

\* What happens instead: the options are unknown to the parser, and the relay
\* has exited with 1 from its parse step.
C19_Rejected ==
  /\ argv = << "--app-path=/dev", "--usr-path=/", "some-command" >>
  /\ ~opt.ok
  /\ pc = "exited"
  /\ exit_code = 1
  /\ session_bus = "NULL"
  /\ spawn_calls = << >>

\* C20: when the exit notification for the held handle carries a wait status
\* that is neither a normal exit nor a termination by signal (the low seven
\* bits are all set: stopped, continued), the relay terminates with exit
\* code 70.
C20_NeitherExitCode ==
  [][ \A status \in { s \in WaitStatuses : s % 128 = 127 } :
        (MatchingExitDispatched /\ Head(inbox).status = status)
          => (pc' = "exited" /\ exit_code' = 70) ]_vars

\* C20 witness: the command was announced as stopped by SIGSTOP (0x137f) and
\* the relay has terminated with 70.
C20_Witness ==
  /\ remote_status = 127 + SIGSTOP * 256
  /\ remote_exited
  /\ pc = "exited" /\ exit_code = 70


(***************************************************************************)
(* Runs in which the service also announces the end of other commands      *)
(* than the relay's, with any wait status.                                 *)
(***************************************************************************)
\* wait statuses of the other commands: exit 0, exit 1, killed by signal 9,
\* stopped by SIGSTOP
OtherStatuses == { 0, 256, 9, 127 + SIGSTOP * 256 }

\* The service announces the end of a command whose handle is not the one it
\* returned to the relay.
EmitOtherExited ==
  /\ Alive /\ msgs_left > 0
  /\ session_bus = "open" /\ "Exited" \in subscribed
  /\ service_pid >= 0
  /\ msgs_left' = msgs_left - 1
  /\ \E pid \in (0..(MaxPid + 1)) \ { service_pid }, status \in OtherStatuses :
       inbox' = Append(inbox, Msg("Exited", pid, status, TRUE, "", ""))
  /\ UNCHANGED << envvars, sigs_left, procvars, optvars, sigvars, session_bus,
                  subscribed, service_pid, remote_exited, callvars, portalvars,
                  relayvars >>

NextOther ==
  \/ main_parse
  \/ forward_signals
  \/ main_bus_get
  \/ main_setup
  \/ main_spawn
  \/ main_spawn_reply
  \/ spawn_exited_cb
  \/ forward_signal_handler
  \/ SignalArrives
  \/ EmitChildExited
  \/ EmitOtherExited

InitOther ==
  InitWith({ << "some-command" >> }, { 6 }, { 1 }, { {} }, { 23 * 256 },
           MaxSignals, MaxMsgs + 1)

SpecOther == InitOther /\ [][NextOther]_vars

\* the loop dispatches an exit notification for a handle that is not held
OtherExitDispatched ==
  /\ pc = "loop" /\ ~stopped /\ ~loop_quit
  /\ inbox # <<>>
  /\ Head(inbox).t = "Exited" /\ Head(inbox).uu
  /\ Head(inbox).pid # child_pid
  /\ inbox' = Tail(inbox)

\* C21: an exit notification for a handle other than the one held is
\* ignored whatever its wait status: the relay does not terminate, its handle
\* is unchanged, the signals it has captured stay to be relayed and its
\* subscriptions and connection stay as they are.
C21_OtherExitIgnored ==
  [][ OtherExitDispatched
        => UNCHANGED << pc, exit_code, killed_by, stopped, child_pid, pending,
                        blocked, session_bus, subscribed, loop_quit, signal_log >> ]_vars

\* C21 witness: a notification for another handle has been dispatched and
\* the relay is still in its loop with its handle; the command has not ended.
C21_Witness ==
  /\ pc = "loop"
  /\ child_pid = 1
  /\ msgs_left = MaxMsgs
  /\ inbox = <<>>
  /\ ~remote_exited


(***************************************************************************)
(* Runs with several captured signals, in which any relay call may fail.   *)
(***************************************************************************)
NextForward ==
  \/ main_parse
  \/ forward_signals
  \/ main_bus_get
  \/ main_setup
  \/ main_spawn
  \/ main_spawn_reply
  \/ spawn_exited_cb
  \/ forward_signal_handler
  \/ SignalArrives
  \/ EmitChildExited

InitForward ==
  InitWith({ << "some-command" >>, << "--host", "some-command" >> },
           { 6 }, { 1 }, { {} }, { 23 * 256, SIGTERM }, MaxSignals + 1, MaxMsgs)

SpecForward == InitForward /\ [][NextForward]_vars

\* this step is a forward_signal whose relay call returned an error
FailedForward == failed_forwards' = failed_forwards + 1

\* C22: a failed signal-relay call does not terminate the relay and changes
\* neither its handle nor its place in the loop; after failed calls, a captured
\* signal taken off the signalfd is still relayed for the same handle, with its
\* number (SIGSTOP for SIGTSTP), and the notification for the held handle
\* still ends the relay with the decoded exit code.
C22_FailedForwardHarmless ==
  /\ [][ FailedForward
           => UNCHANGED << pc, exit_code, killed_by, child_pid, loop_quit,
                           session_bus, subscribed, blocked, inbox >> ]_vars
  /\ [][ \A sig \in forward :
           (failed_forwards > 0 /\ Captured(sig))
             => /\ signal_log' # <<>>
                /\ signal_log'[1].k = "call"
                /\ signal_log'[1].pid = service_pid
                /\ signal_log'[1].sig = (IF sig = SIGTSTP THEN SIGSTOP ELSE sig) ]_vars
  /\ [][ (failed_forwards > 0 /\ MatchingExitDispatched)
           => /\ pc' = "exited"
              /\ Head(inbox).status = 23 * 256 => exit_code' = 23
              /\ Head(inbox).status = SIGTERM => exit_code' = 128 + SIGTERM ]_vars

\* C22 witness: one relay call failed, a later one was made and answered, and
\* the relay then terminated with the exit code of the command.
C22_Witness ==
  /\ failed_forwards = 1
  /\ signal_log # <<>>
  /\ signal_log[1].k = "call" /\ signal_log[1].ok
  /\ remote_status = 23 * 256
  /\ pc = "exited" /\ exit_code = 23


\* the raise() entries in the record of the latest forward_signal
SelfRaises == { i \in DOMAIN signal_log : signal_log[i].k = "raise" }

\* C23: in the Relaying state, after a relay call for SIGSTOP (captured as
\* SIGTSTP and translated) has succeeded the relay raises SIGSTOP against
\* itself; a raise comes after the relay call has returned, never before it,
\* and no relayed signal other than SIGSTOP is followed by a raise.
C23_SelfStopAfterForward ==
  [][ \A sig \in forward :
        (Relaying /\ Captured(sig))
          => /\ signal_log' # <<>>
             /\ signal_log'[1].k = "call"
             /\ (signal_log'[1].sig = SIGSTOP /\ signal_log'[1].ok)
                  => /\ Len(signal_log') = 2
                     /\ signal_log'[2].k = "raise"
                     /\ signal_log'[2].sig = SIGSTOP
                     /\ stopped'
             /\ \A i \in DOMAIN signal_log' :
                  signal_log'[i].k = "raise"
                    => /\ i > 1
                       /\ signal_log'[i].sig = SIGSTOP
                       /\ signal_log'[1].sig = SIGSTOP
             /\ signal_log'[1].sig # SIGSTOP
                  => (Len(signal_log') = 1 /\ stopped' = stopped /\ pc' = pc) ]_vars

\* C23 witness: a captured SIGTSTP was relayed as SIGSTOP, the call succeeded
\* and the relay then stopped itself.
C23_Witness ==
  /\ Len(signal_log) = 2
  /\ signal_log[1].k = "call" /\ signal_log[1].from = SIGTSTP
  /\ signal_log[1].sig = SIGSTOP /\ signal_log[1].ok
  /\ SelfRaises = { 2 }
  /\ stopped
  /\ pc = "loop"


\* C30: when the relay call made for a captured SIGTSTP (relayed as SIGSTOP)
\* fails, the relay raises SIGSTOP against itself all the same: the raise
\* follows the call whatever its outcome, and the relay is stopped although
\* the service did not deliver the signal.
C30_SelfStopDespiteFailure ==
  [][ (Relaying /\ Captured(SIGTSTP) /\ FailedForward)
        => /\ Len(signal_log') = 2
           /\ signal_log'[1].k = "call" /\ signal_log'[1].sig = SIGSTOP
           /\ ~signal_log'[1].ok
           /\ signal_log'[2].k = "raise" /\ signal_log'[2].sig = SIGSTOP
           /\ stopped'
           /\ pc' = "loop" ]_vars

\* C30 witness: the only relay call of the run, made for SIGTSTP, failed, and
\* the relay is stopped by its own SIGSTOP.
C30_Witness ==
  /\ failed_forwards = 1
  /\ Len(signal_log) = 2
  /\ signal_log[1].k = "call" /\ signal_log[1].from = SIGTSTP
  /\ ~signal_log[1].ok
  /\ signal_log[2].k = "raise"
  /\ stopped
  /\ pc = "loop"
  /\ ~remote_exited


\* the answers of the service so far end with a failure that is not retried:
\* a first failure other than invalid arguments, invalid arguments without
\* --watch-bus, or a failure of the second call
SpawnCallFailed ==
  /\ spawn_results # <<>>
  /\ \/ spawn_results[1] = "error"
     \/ spawn_results[1] = "invalid_args" /\ ~WatchBusRequested
     \/ Len(spawn_results) = 2 /\ spawn_results[2] # "pid"

\* C24: the spawn call is issued at most twice; a first failure that is not
\* an invalid-arguments error, an invalid-arguments failure without
\* --watch-bus, or a failure of the retry ends the relay with exit code 1: no
\* handle is recorded, the loop is not entered and no signal is relayed.
C24_SpawnFailureExits ==
  /\ Len(spawn_calls) <= 2
  /\ Len(spawn_results) <= Len(spawn_calls)
  /\ SpawnCallFailed
       => /\ pc = "exited" /\ exit_code = 1
          /\ child_pid = 0 /\ service_pid = -1
          /\ signal_log = <<>> /\ failed_forwards = 0
          /\ ~loop_quit

\* C24 witness: --watch-bus was given, the first call failed with invalid
\* arguments and the retry failed too; the relay has left with 1.
C24_Witness ==
  /\ WatchBusRequested
  /\ spawn_results = << "invalid_args", "error" >>
  /\ Len(spawn_calls) = 2
  /\ pc = "exited" /\ exit_code = 1


(***************************************************************************)
(* Runs centred on the property reads: the options that ask for the        *)
(* version or the capabilities, services of several versions, reads that   *)
(* fail.                                                                   *)
(***************************************************************************)
ProbeTokens ==
  { "--unset-env=A", "--sandbox-flag=1", "--sandbox-expose-path=/",
    "--sandbox-expose-path-ro=/", "--expose-pids" }

InitProbe ==
  InitWith(CmdLines(ProbeTokens, MaxOpts), { 0, 3, 6 }, { 0, 1 }, SUBSET { 1, 2 },
           { 0 }, 0, 0)

SpecProbe == InitProbe /\ [][NextSetup]_vars

\* how many times the property name was read from the service
ReadsOf(name) == Cardinality({ i \in DOMAIN prop_reads : prop_reads[i] = name })

\* C25: the version and the capability bits are computed at most once: in
\* any run, for any options and any reply or failure of the service, the
\* 'version' property is read at most once and the 'supports' property at
\* most once.
C25_AsStated ==
  /\ ReadsOf("version") <= 1
  /\ ReadsOf("supports") <= 1

\* C25: a run in which the relay has read the 'version' property twice, for
\* --unset-env and again for a sandbox option.
C25_VersionReadTwice ==
  /\ IsGiven("--unset-env=A")
  /\ ReadsOf("version") = 2
  /\ spawn_calls # <<>>


(***************************************************************************)
(* Runs centred on the paths to expose: paths that exist and one that does *)
(* not, required and best-effort, read-write and read-only.                *)
(***************************************************************************)
ExposeTokens ==
  { "--sandbox-expose-path=/", "--sandbox-expose-path=/dev",
    "--sandbox-expose-path=/nonexistent",
    "--sandbox-expose-path-ro=/", "--sandbox-expose-path-ro=/nonexistent",
    "--sandbox-expose-path-try=/", "--sandbox-expose-path-try=/nonexistent",
    "--sandbox-expose-path-ro-try=/", "--sandbox-expose-path-ro-try=/nonexistent" }

InitExpose ==
  InitWith(CmdLines(ExposeTokens, MaxOpts), { 6 }, { 1 }, { {} }, { 0 }, 0, 0)

SpecExpose == InitExpose /\ [][NextSetup]_vars

\* the values given with the option name, in command-line order
ValuesGiven(name) ==
  LET given == SelectSeq(GivenOptions,
                 LAMBDA t : t \in DOMAIN OptionTokens /\ OptionTokens[t][1] = name)
  IN  [ i \in DOMAIN given |-> OptionTokens[given[i]][2] ]

Openable(paths) == SelectSeq(paths, PathExists)

\* a path given with one of the two options that take no failure cannot be opened
RequiredPathMissing ==
  \E name \in { "sandbox-expose-path", "sandbox-expose-path-ro" } :
    \E i \in DOMAIN ValuesGiven(name) : ~PathExists(ValuesGiven(name)[i])

\* the paths behind the handles the call passes under the key
HandlePaths(call, key) ==
  [ i \in DOMAIN call.options[key] |-> call.fd_list[call.options[key][i] + 1].path ]

\* the call passes, under the key, the handles of the openable paths: those of
\* the required option first, then those of the best-effort one
ExposesOpenable(call, key, required, best_effort) ==
  (ValuesGiven(required) # <<>> \/ ValuesGiven(best_effort) # <<>>)
    => /\ key \in DOMAIN call.options
       /\ HandlePaths(call, key)
            = Openable(ValuesGiven(required)) \o Openable(ValuesGiven(best_effort))
       /\ \A i, j \in DOMAIN call.options[key] :
            i # j => call.options[key][i] # call.options[key][j]

\* C26: if a path given with --sandbox-expose-path or --sandbox-expose-path-ro
\* cannot be opened the relay exits with 1 and Spawn is never issued; a path
\* given with --sandbox-expose-path-try or --sandbox-expose-path-ro-try that
\* cannot be opened is skipped, Spawn is still issued, and each handle list
\* holds exactly the handles of the paths that could be opened, in
\* command-line order, required paths before best-effort ones.
C26_ExposePaths ==
  /\ RequiredPathMissing
       => /\ spawn_calls = <<>>
          /\ pc \notin { "spawn", "awaiting", "loop" }
          /\ pc = "exited" => exit_code = 1
  /\ ( /\ ~RequiredPathMissing
       /\ GivenCommand # <<>>
       /\ session_bus = "open"
       /\ pc = "exited" )
       => spawn_calls # <<>>
  /\ \A n \in DOMAIN spawn_calls :
       /\ ExposesOpenable(spawn_calls[n], "sandbox-expose-fd",
                          "sandbox-expose-path", "sandbox-expose-path-try")
       /\ ExposesOpenable(spawn_calls[n], "sandbox-expose-fd-ro",
                          "sandbox-expose-path-ro", "sandbox-expose-path-ro-try")

\* C26 witness: a best-effort path that does not exist was given before a
\* required one that does; Spawn was issued with the handle of the latter only.
C26_Witness ==
  /\ GivenOptions = << "--sandbox-expose-path-try=/nonexistent",
                       "--sandbox-expose-path=/dev" >>
  /\ Len(spawn_calls) = 1
  /\ spawn_calls[1].options["sandbox-expose-fd"] = << 3 >>
  /\ spawn_calls[1].fd_list[4].path = "/dev"
  /\ spawn_results = << "pid" >>


(***************************************************************************)
(* Runs centred on the env(1) wrapper: command names and arguments with    *)
(* and without '=', for the host service and portals of versions 4 and 5.  *)
(***************************************************************************)
WrapCommands ==
  { << c >> \o a : c \in { "some-command", "some=command" },
                   a \in SeqsUpTo({ "A=1", "arg2" }, MaxArgs) }

WrapLines ==
  { o \o c : o \in SeqsUpTo({ "--host", "--unset-env=A", "--unset-env=NOPE" }, MaxOpts),
             c \in WrapCommands }

InitWrap == InitWith(WrapLines, { 4, 5 }, { 1 }, { {} }, { 0 }, 0, 0)

SpecWrap == InitWrap /\ [][NextSetup]_vars

ShellTokens == << "/bin/sh", "-euc", "exec \"$@\"", "sh" >>

\* what the argv of the call holds after "/usr/bin/env" and the "-u NAME" pairs
AfterEnvPrefix(call) ==
  SubSeq(call.argv, 2 * Cardinality(UnsetNames) + 2, Len(call.argv))

\* C27: in the unset-env fallback the four tokens /bin/sh, -euc, exec "$@",
\* sh stand between the /usr/bin/env -u ... prefix and the original argv if
\* and only if the command name holds a '='; an '=' in a later argument does
\* not count, and the original argv always ends the argv of the call.
C27_ShellTokens ==
  \A i \in DOMAIN spawn_calls :
    LET call == spawn_calls[i]
        rest == AfterEnvPrefix(call)
        n == Len(GivenCommand)
    IN  (UnsetNames # {} /\ LacksUnsetEnv) =>
          /\ call.argv[1] = "/usr/bin/env"
          /\ Len(rest) >= n
          /\ SubSeq(rest, Len(rest) - n + 1, Len(rest)) = GivenCommand
          /\ SubSeq(rest, 1, Len(rest) - n) \in { << >>, ShellTokens }
          /\ (SubSeq(rest, 1, Len(rest) - n) = ShellTokens)
               <=> (GivenCommand[1] = "some=command")

\* C27 witness: a command without '=' in its name but with one in an argument
\* went to the host service through env(1) alone, without /bin/sh.
C27_Witness ==
  /\ argv = << "--host", "--unset-env=A", "some-command", "A=1" >>
  /\ Len(spawn_calls) = 1
  /\ spawn_calls[1].argv = << "/usr/bin/env", "-u", "A", "some-command", "A=1" >>


(***************************************************************************)
(* Runs centred on the delivery of the exit notification: the service      *)
(* starts the command and sends its reply while main waits in the call,    *)
(* and may announce the end of the command before main has read the reply. *)
(***************************************************************************)
\* The service has started the command and sent the reply with its handle;
\* main has not read the reply yet.
ServiceSpawns ==
  /\ pc = "awaiting" /\ Running
  /\ session_bus = "open"
  /\ \A h \in DOMAIN fd_list : ~fd_list[h].closed
  /\ service_pid = -1
  /\ \E p \in 0..MaxPid : service_pid' = p
  /\ UNCHANGED << envvars, budgetvars, procvars, optvars, sigvars, session_bus,
                  subscribed, inbox, remote_exited, callvars, portalvars, relayvars >>

NextDeliver ==
  \/ main_parse
  \/ forward_signals
  \/ main_bus_get
  \/ main_setup
  \/ main_spawn
  \/ ServiceSpawns
  \/ main_spawn_reply
  \/ spawn_exited_cb
  \/ EmitChildExited
  \/ EmitOtherExited

InitDeliver ==
  InitWith({ << "some-command" >>, << "--host", "some-command" >>,
             << "--watch-bus", "some-command" >> },
           { 6 }, { 1 }, { {} }, { 0, 23 * 256, SIGTERM, 127 + SIGSTOP * 256 },
           0, MaxMsgs + 1)

\* the call returns once its reply is there, and the loop dispatches what is
\* queued for it
SpecDeliver ==
  /\ InitDeliver /\ [][NextDeliver]_vars
  /\ WF_vars(main_spawn_reply)
  /\ WF_vars(spawn_exited_cb)

\* the exit code that stands for the wait status of the command
DecodedExitCode ==
  CASE remote_status = 0 -> 0
    [] remote_status = 23 * 256 -> 23
    [] remote_status = SIGTERM -> 128 + SIGTERM
    [] OTHER -> 70

\* C28: no exit notification is lost: once the service has announced the end
\* of the command it gave the handle of, be it before main has read the reply
\* or entered its loop, the relay ends with the exit code decoded from that
\* notification, provided it is not stopped, its connection stays open and its
\* loop keeps being run.
C28_NoExitLost ==
  remote_exited ~> (pc = "exited" /\ exit_code = DecodedExitCode)

\* C28 witness: the notification for the command is queued while main still
\* waits in the spawn call, before the handle is recorded.
C28_Witness ==
  /\ pc = "awaiting"
  /\ child_pid = 0
  /\ service_pid = 1
  /\ remote_exited
  /\ inbox # <<>>
  /\ inbox[1].t = "Exited" /\ inbox[1].pid = 1 /\ inbox[1].status = 23 * 256


(***************************************************************************)
(* Runs centred on the exit code: command lines that fail in each way main *)
(* can fail and command lines that reach the loop, every event that ends   *)
(* the loop, wait statuses of every kind.                                  *)
(***************************************************************************)
CodeLines ==
  { << "some-command" >>,
    << "--host", "--watch-bus", "some-command" >>,
    << "--watch-bus", "some-command" >>,
    << "--bogus", "some-command" >>,
    << "--env=bad", "some-command" >>,
    << "--forward-fd=yes", "some-command" >>,
    << "--expose-pids", "some-command" >>,
    << "--host", "--sandbox", "some-command" >>,
    << "--sandbox-expose-path=/nonexistent", "some-command" >> }

NextCodes ==
  \/ main_parse
  \/ forward_signals
  \/ main_bus_get
  \/ main_setup
  \/ main_spawn
  \/ main_spawn_reply
  \/ spawn_exited_cb
  \/ name_owner_changed
  \/ session_bus_closed_cb
  \/ main_return
  \/ EmitChildExited
  \/ EmitStrayExited
  \/ EmitNameOwnerChanged
  \/ BusCloses

InitCodes ==
  InitWith(CodeLines, { 6 }, { 0, 1 }, { {} },
           { 0, 23 * 256, SIGTERM, SIGTERM + 128, 127 + SIGSTOP * 256 }, 0, MaxMsgs)

SpecCodes == InitCodes /\ [][NextCodes]_vars

\* the relay ends in this step, with the exit code 0
ExitsWithZero == pc # "exited" /\ pc' = "exited" /\ exit_code' = 0

=============================================================================
